---- MODULE Spec2Model ----
(***************************************************************************)
(* A model of the code-topology engine: the content cache (parse results   *)
(* and embeddings), the cache database life cycle, the graph builder, the  *)
(* analysis pipeline, the MCP single-flight state and the watch-mode loop. *)
(* Each subsystem has its own specification over the shared variables; the *)
(* variables of the other subsystems stay at their initial values.         *)
(***************************************************************************)
EXTENDS Integers, Sequences, FiniteSets, TLC

VARIABLES
  \* ---- content cache tables (parsed_files, embeddings) ----
  parsed_files,   \* function: file_path -> row, one row per path
  embeddings,     \* function: file_path -> row, one row per path
  lastGet,        \* the last lookup: which cache, its arguments, its result
  \* ---- CacheDb: the store on disk and the handle ----
  disk,           \* the file at dbPath: its tables, version rows, cached rows
  db,             \* this.db: "open" or "null"
  dbHandles,      \* connections to the store that are open (this.db and unclosed ones)
  lastOpen,       \* what the last open() found and did
  \* ---- TopologyState (MCP server): single-flight refresh ----
  graph,          \* this.graph: Null or the run whose graph is held
  analyzeInProgress, \* this.analyzeInProgress: Null or the promise of a run
  runState,       \* per analysis run: "new", "running", "fulfilled", "rejected",
                  \* then "resolved" / "failed" once the then/catch callback ran
  callerPc,       \* per caller: "idle", "waiting" or "done"
  callerAwaits,   \* per caller: the promise (run) it was handed
  callerGot,      \* per caller: what it received
  callerCall,     \* per caller: the call it made and what was in flight then
  \* ---- watch mode (CLI): watchers and the runAnalysis lock ----
  watchPhase,     \* "starting", "initial" (first run awaited) or "watching"
  analysisInProgress, \* the lock of runAnalysis
  analysisPending,    \* a trigger arrived while a run was in flight
  watcher,        \* the FileWatcher: pendingChanges (paths), debounceTimer
  gitWatcher,     \* the GitWatcher: debounceTimer, current branch and commit,
                  \* the detectAndEmitEvent calls in flight
  gitDir,         \* the .git directory: what HEAD resolves to, MERGE_HEAD
  watchLog,       \* history: events, triggers, emissions, runs
  \* ---- buildGraph, as a function of its inputs ----
  buildInput,     \* parsedFiles, gitDiff and the tree of the base branch
  builtGraph,     \* Null, or the graph buildGraph returned
  \* ---- analyzeDirectory: one pass ----
  workTree,       \* the working tree: path -> content
  options,        \* the AnalyzeOptions of the pass
  analysis,       \* the locals of analyzeDirectory and its position
  analysisLog,    \* history: the rows the pass wrote and how many it pruned
  \* ---- analyzeDirectory: two passes over one tree ----
  rerun,          \* the passes made so far, their environment and results
  \* ---- checkExportSignatureChange, as a function of its inputs ----
  signatureCheck, \* a parsed file, its diff, its base-branch version; the verdict
  \* ---- import resolution in buildGraph, as a function of its inputs ----
  resolution,     \* the parsed files as supplied, the importer; the target found
  \* ---- semantic-edge discovery, as a function of its inputs ----
  discovery,      \* embeddings, import edges, cap, two thresholds; the edges found
  \* ---- detectConflicts, as a function of its inputs ----
  conflict,       \* the graph, the branches and their modified files; the warnings
  \* ---- watch mode: the shutdown handler ----
  shutdown,       \* the position of `shutdown` (SIGINT / SIGTERM)
  \* ---- watch mode: what the WebSocket server broadcasts ----
  broadcast,      \* the run in flight, the conflict detections in flight, the
                  \* server's currentSnapshot and the messages broadcast
  \* ---- PluginRegistry ----
  registry,       \* plugins (by name) and extensionMap (by extension)
  registryLog,    \* history: the register calls made, and whether each warned
  \* ---- saveTopologyData: the output file and its snapshot history ----
  dataFile,       \* the output file: Null, or [currentIndex, snapshots]
  saveLog,        \* history: saves made, the options of the last one
  \* ---- TopologyState (MCP server): cache handle and cloud vector store ----
  server          \* the environment, cacheDb, _vectorStoreConfig, _cloudStore,
                  \* and the last getCloudStore call

cacheVars == <<parsed_files, embeddings, lastGet>>

dbVars == <<disk, db, dbHandles, lastOpen>>

stateVars == <<graph, analyzeInProgress, runState, callerPc, callerAwaits, callerGot,
               callerCall>>

watchVars == <<watchPhase, analysisInProgress, analysisPending, watcher, gitWatcher,
               gitDir, watchLog>>

graphVars == <<buildInput, builtGraph>>

analyzeVars == <<workTree, options, analysis, analysisLog>>

rerunVars == <<rerun>>

signatureVars == <<signatureCheck>>

resolveVars == <<resolution>>

discoveryVars == <<discovery>>

conflictVars == <<conflict>>

shutdownVars == <<shutdown>>

broadcastVars == <<broadcast>>

registryVars == <<registry, registryLog>>

snapshotVars == <<dataFile, saveLog>>

serverVars == <<server>>

vars == <<cacheVars, dbVars, stateVars, watchVars, graphVars, analyzeVars,
         rerunVars, signatureVars, resolveVars, discoveryVars, conflictVars,
         shutdownVars, broadcastVars, registryVars, snapshotVars,
         serverVars>>

\* what the actions of one subsystem leave alone
notCacheVars == <<dbVars, stateVars, watchVars, graphVars, analyzeVars, rerunVars,
                  signatureVars, resolveVars, discoveryVars, conflictVars,
                  shutdownVars, broadcastVars, registryVars, snapshotVars,
                  serverVars>>

notDbVars == <<cacheVars, stateVars, watchVars, graphVars, analyzeVars, rerunVars,
               signatureVars, resolveVars, discoveryVars, conflictVars,
               shutdownVars, broadcastVars, registryVars, snapshotVars,
               serverVars>>

notStateVars == <<cacheVars, dbVars, watchVars, graphVars, analyzeVars, rerunVars,
                  signatureVars, resolveVars, discoveryVars, conflictVars,
                  shutdownVars, broadcastVars, registryVars, snapshotVars,
                  serverVars>>

notWatchVars == <<cacheVars, dbVars, stateVars, graphVars, analyzeVars, rerunVars,
                  signatureVars, resolveVars, discoveryVars, conflictVars,
                  shutdownVars, broadcastVars, registryVars, snapshotVars,
                  serverVars>>

notGraphVars == <<cacheVars, dbVars, stateVars, watchVars, analyzeVars, rerunVars,
                  signatureVars, resolveVars, discoveryVars, conflictVars,
                  shutdownVars, broadcastVars, registryVars, snapshotVars,
                  serverVars>>

notRerunVars == <<cacheVars, dbVars, stateVars, watchVars, graphVars, analyzeVars,
                  signatureVars, resolveVars, discoveryVars, conflictVars,
                  shutdownVars, broadcastVars, registryVars, snapshotVars,
                  serverVars>>

notSignatureVars == <<cacheVars, dbVars, stateVars, watchVars, graphVars, analyzeVars,
                      rerunVars, resolveVars, discoveryVars, conflictVars, shutdownVars,
                      broadcastVars, registryVars, snapshotVars, serverVars>>

notResolveVars == <<cacheVars, dbVars, stateVars, watchVars, graphVars, analyzeVars,
                    rerunVars, signatureVars, discoveryVars, conflictVars,
                    shutdownVars, broadcastVars, registryVars, snapshotVars,
                    serverVars>>

notDiscoveryVars == <<cacheVars, dbVars, stateVars, watchVars, graphVars, analyzeVars,
                      rerunVars, signatureVars, resolveVars, conflictVars, shutdownVars,
                      broadcastVars, registryVars, snapshotVars, serverVars>>

notConflictVars == <<cacheVars, dbVars, stateVars, watchVars, graphVars, analyzeVars,
                     rerunVars, signatureVars, resolveVars, discoveryVars, shutdownVars,
                     broadcastVars, registryVars, snapshotVars, serverVars>>

notShutdownVars == <<cacheVars, dbVars, stateVars, watchVars, graphVars, analyzeVars,
                     rerunVars, signatureVars, resolveVars, discoveryVars, conflictVars,
                     broadcastVars, registryVars, snapshotVars, serverVars>>

notBroadcastVars == <<cacheVars, dbVars, stateVars, watchVars, graphVars, analyzeVars,
                      rerunVars, signatureVars, resolveVars, discoveryVars, conflictVars,
                      shutdownVars, registryVars, snapshotVars, serverVars>>

notRegistryVars == <<cacheVars, dbVars, stateVars, watchVars, graphVars, analyzeVars,
                     rerunVars, signatureVars, resolveVars, discoveryVars, conflictVars,
                     shutdownVars, broadcastVars, snapshotVars, serverVars>>

notSnapshotVars == <<cacheVars, dbVars, stateVars, watchVars, graphVars, analyzeVars,
                     rerunVars, signatureVars, resolveVars, discoveryVars, conflictVars,
                     shutdownVars, broadcastVars, registryVars, serverVars>>

notServerVars == <<cacheVars, dbVars, stateVars, watchVars, graphVars, analyzeVars,
                   rerunVars, signatureVars, resolveVars, discoveryVars, conflictVars,
                   shutdownVars, broadcastVars, registryVars, snapshotVars>>

stopFrame == <<cacheVars, dbVars, stateVars, graphVars, analyzeVars, rerunVars,
               signatureVars, resolveVars, discoveryVars, conflictVars,
               broadcastVars, registryVars, snapshotVars, serverVars>>

broadcastFrame == <<cacheVars, dbVars, stateVars, graphVars, analyzeVars, rerunVars,
                    signatureVars, resolveVars, discoveryVars, conflictVars,
                    shutdownVars, registryVars, snapshotVars, serverVars>>

serverFrame == <<cacheVars, disk, lastOpen, stateVars, watchVars, graphVars,
                analyzeVars, rerunVars, signatureVars, resolveVars, discoveryVars,
                conflictVars, shutdownVars, broadcastVars, registryVars,
                snapshotVars>>

(***************************************************************************)
(* Generic helpers                                                         *)
(***************************************************************************)

\* "T | null" values: the empty sequence is null, <<x>> is the value x
Null == <<>>

Some(x) == <<x>>

\* the elements of a sequence
Range(s) == {s[i] : i \in 1..Len(s)}

(***************************************************************************)
(* The fixture: a small universe of file paths, content hashes and models  *)
(***************************************************************************)

\* file paths, as their segments
PathA == <<"a.ts">>

PathB == <<"b.ts">>

PathU == <<"util", "index.ts">>

Paths == {PathA, PathB, PathU}

\* the paths the cache operations are exercised on
CachePaths == {PathA, PathB}

\* content hashes (values of simpleHash over the file content)
Hashes == {"h1", "h2"}

\* the encoder model of this build, and the id of another encoder model
MODEL_ID == "Xenova/all-MiniLM-L6-v2"

OtherModel == "other-model"

Models == {MODEL_ID, OtherModel}

\* the longest batch handed to setBatch
MaxBatch == 2

(***************************************************************************)
(* Conversions used by the cache rows                                      *)
(***************************************************************************)

\* JSON.stringify of a plain value: a tagged text holding the value
JsonStringify(v) == [json |-> v]

\* JSON.parse of a text produced by JSON.stringify
JsonParse(t) == t.json

\* the parse result of the content with hash h at path p (the payload of a row):
\* imports and export signature are determined by the content
FixtureParsed(p, h) ==
  [filePath |-> p, contentHash |-> h, language |-> "typescript",
   imports |-> <<>>, exportSignature |-> <<"sig", p, h>>]

\* the vector the encoder model m produces for the content with hash h
FixtureEmbedding(h, m) == <<"vec", h, m>>

(***************************************************************************)
(* ParseCache                                                              *)
(***************************************************************************)

\* an upsert that stores something else than the hash of the parsed content
ParseUpsertStaleHash(table, parsed) ==
  [p \in (DOMAIN table) \cup {parsed.filePath} |->
     IF p = parsed.filePath
     THEN [file_path |-> parsed.filePath,
           content_hash |-> <<"stale", parsed.contentHash>>,
           language |-> parsed.language,
           imports_json |-> JsonStringify(parsed.imports),
           export_sig |-> parsed.exportSignature]
     ELSE table[p]]

\* stmtUpsert: INSERT ... ON CONFLICT(file_path) DO UPDATE
ParseUpsert(table, parsed) ==
  [p \in (DOMAIN table) \cup {parsed.filePath} |->
     IF p = parsed.filePath
     THEN [file_path |-> parsed.filePath,
           content_hash |-> parsed.contentHash,
           language |-> parsed.language,
           imports_json |-> JsonStringify(parsed.imports),
           export_sig |-> parsed.exportSignature]
     ELSE table[p]]

\* the upserts of one batch, applied in order
RECURSIVE ParseUpsertAll(_, _)
ParseUpsertAll(table, batch) ==
  IF batch = <<>> THEN table
  ELSE ParseUpsertAll(ParseUpsert(table, Head(batch)), Tail(batch))

\* a conversion that loses the imports of the row
RowToParsedFileNoImports(row) ==
  [filePath |-> row.file_path, contentHash |-> row.content_hash,
   language |-> row.language, imports |-> <<>>,
   exportSignature |-> row.export_sig]

\* rowToParsedFile
RowToParsedFile(row) ==
  [filePath |-> row.file_path, contentHash |-> row.content_hash,
   language |-> row.language, imports |-> JsonParse(row.imports_json),
   exportSignature |-> row.export_sig]

\* a lookup that ignores the content hash
ParseCacheGetAnyHash(table, filePath, currentContentHash) ==
  IF filePath \in DOMAIN table
  THEN Some(RowToParsedFile(table[filePath]))
  ELSE Null

\* ParseCache.get: SELECT ... WHERE file_path = ? AND content_hash = ?
ParseCacheGet(table, filePath, currentContentHash) ==
  IF filePath \in DOMAIN table /\ table[filePath].content_hash = currentContentHash
  THEN Some(RowToParsedFile(table[filePath]))
  ELSE Null

\* a prune whose test is inverted: it deletes the live rows
CachePruneInverted(table, existingFiles) ==
  [p \in (DOMAIN table) \ existingFiles |-> table[p]]

\* ParseCache.prune / EmbeddingCache.prune: delete the rows whose path is not live
CachePrune(table, existingFiles) ==
  [p \in (DOMAIN table) \cap existingFiles |-> table[p]]

\* the number of rows a prune removes
PruneCount(table, existingFiles) == Cardinality((DOMAIN table) \ existingFiles)

(***************************************************************************)
(* EmbeddingCache                                                          *)
(***************************************************************************)

\* stmtUpsert of the embeddings table
EmbUpsert(table, item) ==
  [p \in (DOMAIN table) \cup {item.filePath} |->
     IF p = item.filePath
     THEN [file_path |-> item.filePath,
           content_hash |-> item.contentHash,
           embedding_json |-> JsonStringify(item.embedding),
           model_id |-> item.modelId]
     ELSE table[p]]

RECURSIVE EmbUpsertAll(_, _)
EmbUpsertAll(table, batch) ==
  IF batch = <<>> THEN table
  ELSE EmbUpsertAll(EmbUpsert(table, Head(batch)), Tail(batch))

\* a lookup that ignores the content hash
EmbeddingCacheGetAnyHash(table, filePath, contentHash) ==
  IF filePath \in DOMAIN table
  THEN Some(JsonParse(table[filePath].embedding_json))
  ELSE Null

\* EmbeddingCache.get: SELECT ... WHERE file_path = ? AND content_hash = ?
EmbeddingCacheGet(table, filePath, contentHash) ==
  IF filePath \in DOMAIN table /\ table[filePath].content_hash = contentHash
  THEN Some(JsonParse(table[filePath].embedding_json))
  ELSE Null

(***************************************************************************)
(* CacheDb: the store on disk, open(), migrate(), destroyAndRecreate()     *)
(***************************************************************************)

CURRENT_SCHEMA_VERSION == 4

\* the tables of the current schema (indexes are left out)
AllTables ==
  {"schema_version", "parsed_files", "embeddings", "auth_config", "users",
   "api_keys", "audit_log", "vector_sync_state"}

\* SQL statements: CREATE TABLE IF NOT EXISTS, INSERT INTO schema_version,
\* UPDATE schema_version SET version
Create(t) == [op |-> "create", table |-> t, version |-> 0]

InsertVersion(v) == [op |-> "insert", table |-> "schema_version", version |-> v]

UpdateVersion(v) == [op |-> "update", table |-> "schema_version", version |-> v]

SCHEMA_SQL ==
  <<Create("schema_version"), InsertVersion(CURRENT_SCHEMA_VERSION),
    Create("parsed_files"), Create("embeddings"), Create("auth_config"),
    Create("users"), Create("api_keys"), Create("audit_log"),
    Create("vector_sync_state")>>

MIGRATION_V1_TO_V2 == <<Create("embeddings"), UpdateVersion(2)>>

MIGRATION_V2_TO_V3 ==
  <<Create("auth_config"), Create("users"), Create("api_keys"),
    Create("audit_log"), UpdateVersion(3)>>

MIGRATION_V3_TO_V4 == <<Create("vector_sync_state"), UpdateVersion(4)>>

\* the file after one statement ran
ApplyStatement(d, st) ==
  CASE st.op = "create" -> [d EXCEPT !.tables = @ \cup {st.table}]
    [] st.op = "insert" -> [d EXCEPT !.versions = Append(@, st.version)]
    [] st.op = "update" -> [d EXCEPT !.versions = [i \in DOMAIN @ |-> st.version]]

\* db.exec(sql) stopping after k statements: the statements run one by one in
\* autocommit mode, so those that ran before an error stay applied
RECURSIVE ExecUpTo(_, _, _)
ExecUpTo(d, sql, k) ==
  IF k = 0 \/ sql = <<>> THEN d
  ELSE ExecUpTo(ApplyStatement(d, Head(sql)), Tail(sql), k - 1)

NoFile ==
  [exists |-> FALSE, corrupt |-> FALSE, tables |-> {}, versions |-> <<>>,
   data |-> FALSE]

\* new Database(path) creates the file when it is missing
Created(d) == IF d.exists THEN d ELSE [NoFile EXCEPT !.exists = TRUE]

\* the outcome of a step of open(): the file, this.db, the connections left
\* open, and whether the store was recreated
Outcome(d, handle, conns, recreated) ==
  [disk |-> d, db |-> handle, conns |-> conns, recreated |-> recreated]

\* destroyAndRecreate(). conns: the connections open once close() has run
\* f.unlink: unlinkSync throws; f.reopen: new Database throws;
\* f.pragma2: configurePragmas throws; f.schemaAt: statements of SCHEMA_SQL
\* that run before exec throws (all of them: exec succeeds)
DestroyAndRecreate(d, conns, f) ==
  LET afterUnlink == IF f.unlink \/ ~d.exists THEN d ELSE NoFile
      opened == Created(afterUnlink)
      k == IF opened.corrupt THEN 0 ELSE f.schemaAt
  IN  IF f.reopen THEN Outcome(afterUnlink, "null", conns, TRUE)
      ELSE IF f.pragma2 \/ opened.corrupt
        THEN Outcome(opened, "null", conns + 1, TRUE)
      ELSE IF k < Len(SCHEMA_SQL)
        THEN Outcome(ExecUpTo(opened, SCHEMA_SQL, k), "null", conns + 1, TRUE)
      ELSE Outcome(ExecUpTo(opened, SCHEMA_SQL, k), "open", conns + 1, TRUE)

\* the migrations migrate() runs for a store at currentVersion, in order
PendingMigrations(currentVersion) ==
  (IF currentVersion < 2 THEN MIGRATION_V1_TO_V2 ELSE <<>>)
  \o (IF currentVersion < 3 THEN MIGRATION_V2_TO_V3 ELSE <<>>)
  \o (IF currentVersion < 4 THEN MIGRATION_V3_TO_V4 ELSE <<>>)

\* migrate(), entered with this.db open (conns counts it).
\* f.read: a read of sqlite_master / schema_version throws;
\* f.migrateAt: statements that run before exec throws
Migrate(d, conns, f) ==
  LET currentVersion == IF d.versions = <<>> THEN 0 ELSE Head(d.versions)
      sql == IF "schema_version" \notin d.tables THEN SCHEMA_SQL
             ELSE IF currentVersion < CURRENT_SCHEMA_VERSION
               THEN PendingMigrations(currentVersion)
             ELSE <<>>
      k == IF f.migrateAt > Len(sql) THEN Len(sql) ELSE f.migrateAt
      after == ExecUpTo(d, sql, k)
  IN  IF f.read \/ d.corrupt THEN DestroyAndRecreate(d, conns - 1, f)
      ELSE IF k < Len(sql) THEN DestroyAndRecreate(after, conns - 1, f)
      ELSE Outcome(after, "open", conns, FALSE)

\* open(), after the directory was made. f.open: new Database throws;
\* f.pragma: configurePragmas throws
CacheDbOpen(d, conns, f) ==
  IF f.open THEN DestroyAndRecreate(d, conns, f)
  ELSE IF f.pragma \/ d.corrupt THEN DestroyAndRecreate(Created(d), conns, f)
  ELSE Migrate(Created(d), conns + 1, f)

\* the version marker migrate() reads, -1 when it reads none
FoundVersion(d, f) ==
  IF f.open \/ f.pragma \/ f.read \/ ~d.exists \/ d.corrupt
     \/ "schema_version" \notin d.tables \/ d.versions = <<>>
  THEN -1
  ELSE Head(d.versions)

(***************************************************************************)
(* TopologyState: ensureGraph and refresh                                  *)
(***************************************************************************)

\* the callers of the MCP tools and the analysis runs the model follows
NumCallers == 2

MaxRuns == 2

Callers == 1..NumCallers

Runs == 1..MaxRuns

\* a refresh that never joins the computation in flight
NeverJoins(inProgress) == FALSE

\* refresh: `if (this.analyzeInProgress) return this.analyzeInProgress`
JoinsInFlight(inProgress) == inProgress # Null

\* ensureGraph: `if (this.graph) return this.graph`
ServedFromGraph(g) == g # Null

\* the runs whose pipeline (analyzeDirectory) is executing
Running == {r \in Runs : runState[r] = "running"}

\* the promise refresh returns is settled once its then / catch callback ran
Settled(r) == runState[r] \in {"resolved", "failed"}

NoCall == [kind |-> "none", inFlight |-> Null, held |-> FALSE]

StateIdle ==
  /\ graph = Null
  /\ analyzeInProgress = Null
  /\ runState = [r \in Runs |-> "new"]
  /\ callerPc = [c \in Callers |-> "idle"]
  /\ callerAwaits = [c \in Callers |-> 0]
  /\ callerGot = [c \in Callers |-> Null]
  /\ callerCall = [c \in Callers |-> NoCall]

(***************************************************************************)
(* Watch mode: FileWatcher, GitWatcher and the runAnalysis lock            *)
(***************************************************************************)

\* the file and .git events the model follows
MaxEvents == 3

\* what .git/HEAD resolves to (branch and commit), as one label
Heads == {"main@c1", "main@c2"}

\* a runAnalysis whose call during a run is lost
RunAnalysisDropping(inProgress, pending) ==
  [analysisInProgress |-> TRUE, analysisPending |-> pending,
   started |-> ~inProgress]

\* a runAnalysis without the test of the lock
RunAnalysisNoLock(inProgress, pending) ==
  [analysisInProgress |-> TRUE, analysisPending |-> pending, started |-> TRUE]

\* runAnalysis up to its first await: a call made while a run is in flight
\* only sets analysisPending; otherwise it takes the lock and starts a run
\* (started: the call entered the try block)
RunAnalysis(inProgress, pending) ==
  IF inProgress
  THEN [analysisInProgress |-> TRUE, analysisPending |-> TRUE,
        started |-> FALSE]
  ELSE [analysisInProgress |-> TRUE, analysisPending |-> pending,
        started |-> TRUE]

\* the finally block of runAnalysis: release the lock; if a trigger is
\* pending, clear it and call runAnalysis once more
RunAnalysisFinally(pending) ==
  IF pending
  THEN RunAnalysis(FALSE, FALSE)
  ELSE [analysisInProgress |-> FALSE, analysisPending |-> pending,
        started |-> FALSE]

\* the runs executing after a call of runAnalysis
Executing(n, r) == IF r.started THEN n + 1 ELSE n

\* FileWatcher.handleChange that forgets the changes already pending
HandleChangeOverwrites(w, path) ==
  [pendingChanges |-> {path}, debounceTimer |-> "armed"]

\* FileWatcher.handleChange: record the change under its path, reset the timer
HandleChange(w, path) ==
  [pendingChanges |-> w.pendingChanges \cup {path}, debounceTimer |-> "armed"]

\* GitWatcher.handleGitFileChange: reset the timer
HandleGitFileChange(g) == [g EXCEPT !.debounceTimer = "armed"]

\* GitWatcher.detectAndEmitEvent, its last part: the event type, and whether
\* an event is emitted
GitEventType(previous, current, mergeHead) ==
  IF mergeHead THEN "merge"
  ELSE IF previous # current THEN "change"
  ELSE "unknown"

GitEventEmitted(previous, current, mergeHead) ==
  ~(GitEventType(previous, current, mergeHead) = "unknown" /\ previous = current)

\* no debounce timer is pending and no detection is in flight
Quiescent ==
  /\ watcher.debounceTimer # "armed"
  /\ gitWatcher.debounceTimer # "armed"
  /\ gitWatcher.detections = <<>>

NoWatchLog ==
  [events |-> 0, queued |-> 0, followUps |-> 0, owed |-> 0, outcome |-> "none",
   fileBursts |-> 0, fileEmits |-> 0, burstPaths |-> {}, lastChanges |-> {},
   gitBursts |-> 0, gitExpiries |-> 0, gitEmits |-> 0,
   lastQueued |-> 0, executing |-> 0,
   bursts |-> 0, last |-> "none", triggers |-> 0, hadFile |-> FALSE]

(***************************************************************************)
(* The graph builder: import resolution and buildGraph                     *)
(* A path is the sequence of its segments ("util/index.ts" is              *)
(* <<"util", "index.ts">>); the directory "." is the empty sequence.       *)
(* An import is [isRelative, segs, js, dots]: for JavaScript / TypeScript  *)
(* the specifier is segs joined by "/" and followed by ".js" when js is    *)
(* set; for Python it is `dots` leading dots followed by segs joined by    *)
(* ".".                                                                    *)
(***************************************************************************)

\* the loop of normalizePath over the parts still to read
RECURSIVE NormalizeParts(_, _)
NormalizeParts(parts, result) ==
  IF parts = <<>> THEN result
  ELSE LET part == Head(parts)
       IN  NormalizeParts(Tail(parts),
             IF part = ".."
             THEN (IF result = <<>> THEN <<>>
                   ELSE SubSeq(result, 1, Len(result) - 1))
             ELSE IF part # "." /\ part # "" THEN Append(result, part)
             ELSE result)

NormalizePath(parts) == NormalizeParts(parts, <<>>)

\* path.dirname; dirname(".") is "."
Dirname(path) == IF path = <<>> THEN <<>> ELSE SubSeq(path, 1, Len(path) - 1)

RECURSIVE DirnameTimes(_, _)
DirnameTimes(path, n) == IF n <= 0 THEN path ELSE DirnameTimes(Dirname(path), n - 1)

\* `resolved + ext` for an extension, `resolved + '/' + name` for a file name
WithExt(resolved, ext) ==
  IF resolved = <<>> THEN <<ext>>
  ELSE [resolved EXCEPT ![Len(resolved)] = @ \o ext]

WithFile(resolved, name) ==
  IF resolved = <<>> THEN <<"", name>> ELSE Append(resolved, name)

\* the first candidate that is a key of the node map, or null
RECURSIVE FirstInNodeMap(_, _)
FirstInNodeMap(candidates, nodeIds) ==
  IF candidates = <<>> THEN Null
  ELSE IF Head(candidates) \in nodeIds THEN Some(Head(candidates))
  ELSE FirstInNodeMap(Tail(candidates), nodeIds)

ResolvePythonImportPath(fromFile, imp, nodeIds) ==
  IF imp.dots = 0
  THEN FirstInNodeMap(<<WithExt(imp.segs, ".py"), WithFile(imp.segs, "__init__.py")>>,
                      nodeIds)
  ELSE LET basePath == DirnameTimes(Dirname(fromFile), imp.dots - 1)
           resolved == IF imp.segs # <<>> THEN NormalizePath(basePath \o imp.segs)
                       ELSE IF basePath = <<>> THEN <<".">> ELSE basePath
       IN  FirstInNodeMap(<<WithExt(resolved, ".py"),
                            WithFile(resolved, "__init__.py")>>, nodeIds)

\* the probes of resolveImportPath after the exact match, in their order
Extensions == <<".ts", ".tsx", ".js", ".jsx">>

IndexFiles == <<"index.ts", "index.tsx", "index.js", "index.jsx">>

\* a resolution that probes the directory-index files before the extensions
ResolveImportPathIndexFirst(fromFile, imp, nodeIds, language) ==
  IF language = "python" THEN ResolvePythonImportPath(fromFile, imp, nodeIds)
  ELSE LET resolved == NormalizePath(Dirname(fromFile) \o imp.segs)
       IN  FirstInNodeMap(<<resolved>>
                            \o [i \in 1..Len(IndexFiles) |-> WithFile(resolved, IndexFiles[i])]
                            \o [i \in 1..Len(Extensions) |-> WithExt(resolved, Extensions[i])],
                          nodeIds)

ResolveImportPath(fromFile, imp, nodeIds, language) ==
  IF language = "python" THEN ResolvePythonImportPath(fromFile, imp, nodeIds)
  ELSE LET resolved == NormalizePath(Dirname(fromFile) \o imp.segs)
       IN  FirstInNodeMap(<<resolved>>
                            \o [i \in 1..Len(Extensions) |-> WithExt(resolved, Extensions[i])]
                            \o [i \in 1..Len(IndexFiles) |-> WithFile(resolved, IndexFiles[i])],
                          nodeIds)

\* parseContentForExports: the hash of the sorted export list of a content
ParseContentForExports(content) == <<"sig", content.exports>>

\* getFileAtRef: the content at the ref, or null when the file is not there
\* or resolving the ref or reading the blob throws
GetFileAtRef(atRef, readThrows) == IF readThrows THEN Null ELSE atRef

\* checkExportSignatureChange; baseTree[p] is what getFileAtRef returns for p.
\* `!baseContent` holds for null and for the empty string
CheckExportSignatureChange(baseTree, filePath, currentSignature) ==
  IF baseTree[filePath] = Null \/ baseTree[filePath][1].text = "" THEN FALSE
  ELSE ParseContentForExports(baseTree[filePath][1]) # currentSignature

\* the diff status buildGraph gives a file
DiffStatusOf(gitDiff, filePath) ==
  IF gitDiff = Null THEN "UNCHANGED"
  ELSE IF filePath \in DOMAIN gitDiff[1].fileStatus
       THEN gitDiff[1].fileStatus[filePath]
       ELSE "UNCHANGED"

\* the files buildGraph records in changedExportFiles
ChangedExportFiles(parsedFiles, gitDiff, baseTree) ==
  {f.filePath : f \in
     {g \in Range(parsedFiles) :
        /\ DiffStatusOf(gitDiff, g.filePath) = "MODIFIED"
        /\ gitDiff[1].baseBranch # Null
        /\ CheckExportSignatureChange(baseTree, g.filePath, g.exportSignature)}}

\* an edge marked broken whenever its target's exports changed
IsBrokenIgnoringSource(changed, sourceStatus, targetPath, targetStatus) ==
  targetPath \in changed \/ targetStatus = "DELETED"

\* isBroken || isTargetDeleted
IsBroken(changed, sourceStatus, targetPath, targetStatus) ==
  (targetPath \in changed /\ sourceStatus = "UNCHANGED") \/ targetStatus = "DELETED"

\* the edges of one file, in the order of its imports, without their ids
RECURSIVE EdgesOfImports(_, _, _, _)
EdgesOfImports(file, imports, nodeMap, changed) ==
  IF imports = <<>> THEN <<>>
  ELSE LET imp == Head(imports)
           more == EdgesOfImports(file, Tail(imports), nodeMap, changed)
           targetPath == ResolveImportPath(file.filePath, imp, DOMAIN nodeMap,
                                           file.language)
       IN  IF ~imp.isRelative THEN more
           ELSE IF targetPath = Null THEN more
           ELSE <<[source |-> file.filePath,
                   target |-> targetPath[1],
                   isBroken |-> IsBroken(changed, nodeMap[file.filePath].status,
                                         targetPath[1],
                                         nodeMap[targetPath[1]].status)]>> \o more

RECURSIVE EdgesOfFiles(_, _, _)
EdgesOfFiles(files, nodeMap, changed) ==
  IF files = <<>> THEN <<>>
  ELSE EdgesOfImports(Head(files), Head(files).imports, nodeMap, changed)
         \o EdgesOfFiles(Tail(files), nodeMap, changed)

\* buildGraph (label and type of a node are left out)
BuildGraph(parsedFiles, gitDiff, baseTree) ==
  LET NodeOf(file) == [id |-> file.filePath,
                       status |-> DiffStatusOf(gitDiff, file.filePath),
                       astSignature |-> file.exportSignature,
                       language |-> file.language]
      nodes == [i \in 1..Len(parsedFiles) |-> NodeOf(parsedFiles[i])]
      nodeMap == [id \in {f.filePath : f \in Range(parsedFiles)} |->
                    LET last == CHOOSE i \in 1..Len(parsedFiles) :
                                  /\ parsedFiles[i].filePath = id
                                  /\ \A j \in (i + 1)..Len(parsedFiles) :
                                       parsedFiles[j].filePath # id
                    IN  nodes[last]]
      changed == ChangedExportFiles(parsedFiles, gitDiff, baseTree)
      found == EdgesOfFiles(parsedFiles, nodeMap, changed)
  IN  [nodes |-> nodes,
       edges |-> [i \in 1..Len(found) |->
                    [id |-> <<"e", i - 1>>, source |-> found[i].source,
                     target |-> found[i].target, isBroken |-> found[i].isBroken]]]

(***************************************************************************)
(* Semantic edges: cosineSimilarity and findSemanticEdges                  *)
(* A vector is a sequence of integers; the embeddings map is the sequence  *)
(* of its entries [filePath, embedding] in insertion order.                *)
(***************************************************************************)

RECURSIVE DotFrom(_, _, _)
DotFrom(a, b, i) == IF i > Len(a) THEN 0 ELSE a[i] * b[i] + DotFrom(a, b, i + 1)

\* cosineSimilarity: the dot product
CosineSimilarity(a, b) == DotFrom(a, b, 1)

\* the key of an edge in existingEdgeSet and selectedEdges
EdgeKey(source, target) == <<source, target>>

\* a pair collection that does not look at the import edges
RECURSIVE CandidatePairsUnfiltered(_, _, _, _, _)
CandidatePairsUnfiltered(emb, existingEdgeSet, threshold, i, j) ==
  IF i > Len(emb) THEN <<>>
  ELSE IF j > Len(emb)
  THEN CandidatePairsUnfiltered(emb, existingEdgeSet, threshold, i + 1, i + 2)
  ELSE LET sim == CosineSimilarity(emb[i].embedding, emb[j].embedding)
           more == CandidatePairsUnfiltered(emb, existingEdgeSet, threshold, i, j + 1)
       IN  IF sim < threshold THEN more
           ELSE <<[source |-> emb[i].filePath, target |-> emb[j].filePath,
                   similarity |-> sim]>> \o more

\* a pair collection whose threshold test is inverted
RECURSIVE CandidatePairsBelow(_, _, _, _, _)
CandidatePairsBelow(emb, existingEdgeSet, threshold, i, j) ==
  IF i > Len(emb) THEN <<>>
  ELSE IF j > Len(emb)
  THEN CandidatePairsBelow(emb, existingEdgeSet, threshold, i + 1, i + 2)
  ELSE LET a == emb[i].filePath
           b == emb[j].filePath
           sim == CosineSimilarity(emb[i].embedding, emb[j].embedding)
           more == CandidatePairsBelow(emb, existingEdgeSet, threshold, i, j + 1)
       IN  IF EdgeKey(a, b) \in existingEdgeSet \/ EdgeKey(b, a) \in existingEdgeSet
           THEN more
           ELSE IF sim > threshold THEN more
           ELSE <<[source |-> a, target |-> b, similarity |-> sim]>> \o more

\* the candidate pairs (i, j), i < j, in the order of the two loops: the
\* pairs without an import edge in either direction whose similarity reaches
\* the threshold
RECURSIVE CandidatePairs(_, _, _, _, _)
CandidatePairs(emb, existingEdgeSet, threshold, i, j) ==
  IF i > Len(emb) THEN <<>>
  ELSE IF j > Len(emb) THEN CandidatePairs(emb, existingEdgeSet, threshold, i + 1, i + 2)
  ELSE LET a == emb[i].filePath
           b == emb[j].filePath
           sim == CosineSimilarity(emb[i].embedding, emb[j].embedding)
           more == CandidatePairs(emb, existingEdgeSet, threshold, i, j + 1)
       IN  IF EdgeKey(a, b) \in existingEdgeSet \/ EdgeKey(b, a) \in existingEdgeSet
           THEN more
           ELSE IF sim < threshold THEN more
           ELSE <<[source |-> a, target |-> b, similarity |-> sim]>> \o more

\* Array.prototype.sort by similarity descending (a stable sort)
RECURSIVE InsertDescending(_, _)
InsertDescending(sorted, edge) ==
  IF sorted = <<>> THEN <<edge>>
  ELSE IF Head(sorted).similarity >= edge.similarity
       THEN <<Head(sorted)>> \o InsertDescending(Tail(sorted), edge)
       ELSE <<edge>> \o sorted

RECURSIVE SortDescending(_, _)
SortDescending(edges, sorted) ==
  IF edges = <<>> THEN sorted
  ELSE SortDescending(Tail(edges), InsertDescending(sorted, Head(edges)))

\* the keys of candidatesByFile in insertion order
RECURSIVE CandidateFiles(_, _)
CandidateFiles(candidates, files) ==
  IF candidates = <<>> THEN files
  ELSE LET e == Head(candidates)
           withA == IF e.source \in Range(files) THEN files ELSE Append(files, e.source)
           withB == IF e.target \in Range(withA) THEN withA ELSE Append(withA, e.target)
       IN  CandidateFiles(Tail(candidates), withB)

\* the candidates of one file, in the order they were pushed
RECURSIVE CandidatesOf(_, _)
CandidatesOf(candidates, file) ==
  IF candidates = <<>> THEN <<>>
  ELSE IF Head(candidates).source = file \/ Head(candidates).target = file
       THEN <<Head(candidates)>> \o CandidatesOf(Tail(candidates), file)
       ELSE CandidatesOf(Tail(candidates), file)

\* the edges among the first ones of a file's sorted list that are new
RECURSIVE PushNew(_, _)
PushNew(top, result) ==
  IF top = <<>> THEN result
  ELSE PushNew(Tail(top),
               IF Head(top) \in Range(result) THEN result ELSE Append(result, Head(top)))

\* a selection loop without the cap
RECURSIVE SelectTopUncapped(_, _, _, _)
SelectTopUncapped(files, candidates, maxPerFile, result) ==
  IF files = <<>> THEN result
  ELSE SelectTopUncapped(Tail(files), candidates, maxPerFile,
         PushNew(SortDescending(CandidatesOf(candidates, Head(files)), <<>>), result))

\* the selection loop over candidatesByFile
RECURSIVE SelectTop(_, _, _, _)
SelectTop(files, candidates, maxPerFile, result) ==
  IF files = <<>> THEN result
  ELSE LET sorted == SortDescending(CandidatesOf(candidates, Head(files)), <<>>)
           top == SubSeq(sorted, 1, IF Len(sorted) < maxPerFile THEN Len(sorted)
                                    ELSE maxPerFile)
       IN  SelectTop(Tail(files), candidates, maxPerFile, PushNew(top, result))

FindSemanticEdges(emb, existingEdgeSet, threshold, maxPerFile) ==
  LET candidates == CandidatePairs(emb, existingEdgeSet, threshold, 1, 2)
  IN  SortDescending(SelectTop(CandidateFiles(candidates, <<>>), candidates,
                               maxPerFile, <<>>), <<>>)

(***************************************************************************)
(* analyzeDirectory: the working tree and the loops of one pass            *)
(* A content is [text, parses, imports, exports, vector]: parses tells     *)
(* whether parseFileContent returns a result for it, vector is what the    *)
(* embedder returns for it.                                                *)
(***************************************************************************)

\* the order in which glob lists the files
GlobOrder == <<PathA, PathB, PathU>>

RECURSIVE Glob(_, _)
Glob(tree, order) ==
  IF order = <<>> THEN <<>>
  ELSE IF Head(order) \in DOMAIN tree THEN <<Head(order)>> \o Glob(tree, Tail(order))
  ELSE Glob(tree, Tail(order))

\* simpleHash of a content
SimpleHash(content) == <<"hash", content.text>>

\* parseFileContent, then `parsed.filePath = normalizedFile`
ParseFileContent(content, file) ==
  IF content.parses
  THEN Some([filePath |-> file, contentHash |-> SimpleHash(content),
             language |-> "typescript", imports |-> content.imports,
             exportSignature |-> ParseContentForExports(content)])
  ELSE Null

\* the parse loop: unreadable files are skipped, a cache hit is pushed as it
\* is, a miss is parsed and, when parsing gave a result, pushed and queued
\* for the cache
RECURSIVE ParseLoop(_, _, _, _, _)
ParseLoop(files, tree, unreadable, table, useCache) ==
  IF files = <<>> THEN [parsedFiles |-> <<>>, newlyParsed |-> <<>>]
  ELSE LET file == Head(files)
           rest == ParseLoop(Tail(files), tree, unreadable, table, useCache)
           cached == IF useCache THEN ParseCacheGet(table, file, SimpleHash(tree[file]))
                     ELSE Null
           parsed == ParseFileContent(tree[file], file)
       IN  IF file \in unreadable THEN rest
           ELSE IF cached # Null
           THEN [rest EXCEPT !.parsedFiles = <<cached[1]>> \o @]
           ELSE IF parsed = Null THEN rest
           ELSE [parsedFiles |-> <<parsed[1]>> \o rest.parsedFiles,
                 newlyParsed |-> <<parsed[1]>> \o rest.newlyParsed]

\* the second read of the files: fileContents, in insertion order
RECURSIVE ReadFileContents(_, _, _)
ReadFileContents(files, tree, unreadable) ==
  IF files = <<>> THEN <<>>
  ELSE IF Head(files) \in unreadable THEN ReadFileContents(Tail(files), tree, unreadable)
  ELSE <<[filePath |-> Head(files), content |-> tree[Head(files)],
          hash |-> SimpleHash(tree[Head(files)])]>>
         \o ReadFileContents(Tail(files), tree, unreadable)

\* the embedding loop: a cache hit is used as it is, a miss is embedded
\* unless inference fails for the file
RECURSIVE EmbedLoop(_, _, _, _)
EmbedLoop(fileContents, failing, table, useCache) ==
  IF fileContents = <<>> THEN [embeddings |-> <<>>, newEmbeddings |-> <<>>]
  ELSE LET fc == Head(fileContents)
           rest == EmbedLoop(Tail(fileContents), failing, table, useCache)
           cached == IF useCache THEN EmbeddingCacheGet(table, fc.filePath, fc.hash)
                     ELSE Null
       IN  IF cached # Null
           THEN [rest EXCEPT !.embeddings =
                   <<[filePath |-> fc.filePath, embedding |-> cached[1]]>> \o @]
           ELSE IF fc.filePath \in failing THEN rest
           ELSE [embeddings |-> <<[filePath |-> fc.filePath,
                                   embedding |-> fc.content.vector]>> \o rest.embeddings,
                 newEmbeddings |-> <<[filePath |-> fc.filePath, contentHash |-> fc.hash,
                                      embedding |-> fc.content.vector,
                                      modelId |-> MODEL_ID]>> \o rest.newEmbeddings]

\* graph.edges after the semantic edges were pushed
WithSemanticEdges(g, semanticEdges) ==
  [g EXCEPT !.edges = @ \o
     [i \in 1..Len(semanticEdges) |->
        [id |-> <<"semantic", semanticEdges[i].source, semanticEdges[i].target>>,
         source |-> semanticEdges[i].source,
         target |-> semanticEdges[i].target,
         isBroken |-> FALSE,
         linkType |-> "semantic",
         similarity |-> semanticEdges[i].similarity]]]

\* the locals of analyzeDirectory before it starts
NoAnalysis ==
  [pc |-> "start", files |-> <<>>, cacheDb |-> FALSE, parsedFiles |-> <<>>,
   newlyParsed |-> <<>>, graph |-> Null, fileContents |-> <<>>,
   embeddings |-> <<>>, newEmbeddings |-> <<>>, result |-> Null]

NoAnalysisLog ==
  [parseWritten |-> <<>>, parsePruned |-> 0, embWritten |-> <<>>, embPruned |-> 0,
   thrownBy |-> "none"]

(***************************************************************************)
(* analyzeDirectory as a function of the tree, the cache it finds, its     *)
(* options, its environment and the failures of the cache operations.      *)
(* env is [unreadable, failing, loaded, diff]: the files that cannot be    *)
(* read, the files inference fails for, whether the model loads, and what  *)
(* getGitDiff and getFileAtRef return.  faults is [opened, getThrows,      *)
(* parseCommitted, parsePruned, embCommitted, embPruned].                  *)
(***************************************************************************)

\* the files the parse loop pushed from the cache (cacheHits counts them)
CacheHits(r) ==
  {pf.filePath : pf \in Range(r.parsedFiles)} \ {pf.filePath : pf \in Range(r.newlyParsed)}

\* the files parseFileContent was called for: read, and not served from the cache
ParseAttempts(files, unreadable, r) == (Range(files) \ unreadable) \ CacheHits(r)

AnalyzePass(tree, cache, opts, env, faults) ==
  LET files == Glob(tree, GlobOrder)
      cacheDb == ~opts.noCache /\ faults.opened
      thrown == cacheDb /\ faults.getThrows /\ Range(files) \ env.unreadable # {}
      r == ParseLoop(files, tree, env.unreadable, cache.parsed_files, cacheDb)
      parseWritten == cacheDb /\ r.newlyParsed # <<>> /\ faults.parseCommitted
      table1 == IF parseWritten THEN ParseUpsertAll(cache.parsed_files, r.newlyParsed)
                ELSE cache.parsed_files
      table2 == IF cacheDb /\ faults.parsePruned THEN CachePrune(table1, Range(files))
                ELSE table1
      gitDiff == IF opts.skipGitDiff THEN Null ELSE env.diff.gitDiff
      g == BuildGraph(r.parsedFiles, gitDiff, env.diff.baseTree)
      fileContents == ReadFileContents(files, tree, env.unreadable)
      e == EmbedLoop(fileContents, env.failing, cache.embeddings, cacheDb)
      existingFiles == {fc.filePath : fc \in Range(fileContents)}
      semantic == ~opts.noEmbeddings /\ env.loaded
      emb1 == IF semantic /\ cacheDb /\ e.newEmbeddings # <<>> /\ faults.embCommitted
              THEN EmbUpsertAll(cache.embeddings, e.newEmbeddings)
              ELSE cache.embeddings
      emb2 == IF semantic /\ cacheDb /\ faults.embPruned
              THEN CachePrune(emb1, existingFiles)
              ELSE emb1
      existingEdgeSet == {EdgeKey(ed.source, ed.target) : ed \in Range(g.edges)}
      found == FindSemanticEdges(e.embeddings, existingEdgeSet,
                                 opts.similarityThreshold,
                                 opts.maxSemanticEdgesPerFile)
  IN  IF thrown
      THEN [returned |-> FALSE, graph |-> Null, cacheDb |-> cacheDb,
            parsed_files |-> cache.parsed_files, embeddings |-> cache.embeddings,
            parsedFiles |-> <<>>, hits |-> {}, attempts |-> {},
            parseWritten |-> FALSE]
      ELSE [returned |-> TRUE,
            graph |-> Some(IF semantic THEN WithSemanticEdges(g, found) ELSE g),
            cacheDb |-> cacheDb,
            parsed_files |-> table2, embeddings |-> emb2,
            parsedFiles |-> r.parsedFiles,
            hits |-> CacheHits(r),
            attempts |-> ParseAttempts(files, env.unreadable, r),
            parseWritten |-> parseWritten \/ r.newlyParsed = <<>>]

\* no pass was made
NoRerun == [pass |-> 0, env |-> Null, first |-> Null, second |-> Null]





(***************************************************************************)
(* findSemanticEdgesCloud over a store that scores every row               *)
(***************************************************************************)

\* the files of the fixture in the order of their path strings
PathC == <<"c.ts">>

SortedPaths == <<PathA, PathB, PathC, PathU>>

\* `a < b` for two path strings
PathLess(a, b) ==
  \E i, j \in 1..Len(SortedPaths) : i < j /\ SortedPaths[i] = a /\ SortedPaths[j] = b

\* scored.sort((a, b) => b.score - a.score), a stable sort
RECURSIVE InsertByScore(_, _)
InsertByScore(sorted, item) ==
  IF sorted = <<>> THEN <<item>>
  ELSE IF Head(sorted).score >= item.score
       THEN <<Head(sorted)>> \o InsertByScore(Tail(sorted), item)
       ELSE <<item>> \o sorted

RECURSIVE SortByScore(_, _)
SortByScore(scored, sorted) ==
  IF scored = <<>> THEN sorted
  ELSE SortByScore(Tail(scored), InsertByScore(sorted, Head(scored)))

\* SqliteVectorStore.query: every row is scored, the topK best are returned
StoreQuery(rows, vector, topK) ==
  LET scored == [i \in 1..Len(rows) |->
                   [id |-> rows[i].filePath,
                    score |-> CosineSimilarity(vector, rows[i].embedding)]]
      sorted == SortByScore(scored, <<>>)
  IN  SubSeq(sorted, 1, IF Len(sorted) < topK THEN Len(sorted) ELSE topK)

\* the loop over the candidates of one file
RECURSIVE CloudCandidates(_, _, _, _, _, _, _)
CloudCandidates(candidates, filePath, existingEdgeSet, threshold, maxPerFile, count, result) ==
  IF candidates = <<>> \/ count >= maxPerFile THEN result
  ELSE LET candidate == Head(candidates)
           source == IF PathLess(filePath, candidate.id) THEN filePath ELSE candidate.id
           target == IF PathLess(filePath, candidate.id) THEN candidate.id ELSE filePath
           skipped ==
             \/ candidate.id = filePath
             \/ candidate.score < threshold
             \/ EdgeKey(filePath, candidate.id) \in existingEdgeSet
             \/ EdgeKey(candidate.id, filePath) \in existingEdgeSet
             \/ \E e \in Range(result) : e.source = source /\ e.target = target
       IN  IF skipped
           THEN CloudCandidates(Tail(candidates), filePath, existingEdgeSet, threshold,
                                maxPerFile, count, result)
           ELSE CloudCandidates(Tail(candidates), filePath, existingEdgeSet, threshold,
                                maxPerFile, count + 1,
                                Append(result, [source |-> source, target |-> target,
                                                similarity |-> candidate.score]))

\* the loop over the files
RECURSIVE CloudFiles(_, _, _, _, _, _, _)
CloudFiles(rows, emb, i, existingEdgeSet, threshold, maxPerFile, result) ==
  IF i > Len(emb) THEN result
  ELSE CloudFiles(rows, emb, i + 1, existingEdgeSet, threshold, maxPerFile,
         CloudCandidates(StoreQuery(rows, emb[i].embedding, maxPerFile * 2),
                         emb[i].filePath, existingEdgeSet, threshold, maxPerFile, 0,
                         result))

FindSemanticEdgesCloud(rows, emb, existingEdgeSet, threshold, maxPerFile) ==
  SortDescending(CloudFiles(rows, emb, 1, existingEdgeSet, threshold, maxPerFile, <<>>),
                 <<>>)

(***************************************************************************)
(* detectConflicts.  The input is [graph, currentBranch, base,             *)
(* currentModifiedFiles, otherBranches]: base is null when no base branch  *)
(* is given or found, otherBranches are [name, modifiedFiles] in the order *)
(* listOtherBranches returns them, with the files getBranchModifiedFiles   *)
(* returns for each.                                                       *)
(***************************************************************************)

\* edgeKey of the detector: the two paths, the smaller one first
ConflictEdgeKey(a, b) == IF PathLess(a, b) THEN <<a, b>> ELSE <<b, a>>

CreateWarning(index, type, severity, currentBranch, otherBranch, currentFile, otherFile, similarity) ==
  [id |-> <<"conflict", index>>, type |-> type, severity |-> severity,
   currentBranch |-> currentBranch, otherBranch |-> otherBranch,
   currentFile |-> currentFile, otherFile |-> otherFile, similarity |-> similarity]

\* the inner loop: one file of the other branch against every file modified
\* on the current branch
RECURSIVE IndirectWarnings(_, _, _, _, _, _)
IndirectWarnings(currentFiles, otherFile, g, currentBranch, otherBranch, warnings) ==
  IF currentFiles = <<>> THEN warnings
  ELSE LET currentFile == Head(currentFiles)
           key == ConflictEdgeKey(currentFile, otherFile)
           dependencyEdges == {ConflictEdgeKey(e.source, e.target) :
                                 e \in {x \in Range(g.edges) : ~("linkType" \in DOMAIN x)}}
           semanticEdges == {e \in Range(g.edges) :
                               /\ "linkType" \in DOMAIN e
                               /\ ConflictEdgeKey(e.source, e.target) = key}
           \* Map.set: the last edge with the key holds
           similarity == LET last == CHOOSE i \in 1..Len(g.edges) :
                                       /\ g.edges[i] \in semanticEdges
                                       /\ \A j \in 1..Len(g.edges) :
                                            g.edges[j] \in semanticEdges => j <= i
                         IN  g.edges[last].similarity
           next == IF key \in dependencyEdges
                   THEN Append(warnings,
                               CreateWarning(Len(warnings), "dependency", "medium",
                                             currentBranch, otherBranch, currentFile,
                                             otherFile, Null))
                   ELSE IF semanticEdges # {}
                   THEN Append(warnings,
                               CreateWarning(Len(warnings), "semantic", "low",
                                             currentBranch, otherBranch, currentFile,
                                             otherFile, Some(similarity)))
                   ELSE warnings
       IN  IndirectWarnings(Tail(currentFiles), otherFile, g, currentBranch, otherBranch,
                            next)

\* a loop over the files of the other branch that goes on to the inner loop
\* after a direct conflict
RECURSIVE OtherFileWarningsNoContinue(_, _, _, _, _, _)
OtherFileWarningsNoContinue(otherFiles, currentFiles, g, currentBranch, otherBranch, warnings) ==
  IF otherFiles = <<>> THEN warnings
  ELSE LET otherFile == Head(otherFiles)
           direct == IF otherFile \in Range(currentFiles)
                     THEN Append(warnings,
                                 CreateWarning(Len(warnings), "direct", "high",
                                               currentBranch, otherBranch, otherFile,
                                               otherFile, Null))
                     ELSE warnings
       IN  OtherFileWarningsNoContinue(Tail(otherFiles), currentFiles, g, currentBranch,
             otherBranch,
             IndirectWarnings(currentFiles, otherFile, g, currentBranch, otherBranch,
                              direct))

\* the loop over the files modified on one other branch
RECURSIVE OtherFileWarnings(_, _, _, _, _, _)
OtherFileWarnings(otherFiles, currentFiles, g, currentBranch, otherBranch, warnings) ==
  IF otherFiles = <<>> THEN warnings
  ELSE LET otherFile == Head(otherFiles)
       IN  OtherFileWarnings(Tail(otherFiles), currentFiles, g, currentBranch,
             otherBranch,
             IF otherFile \in Range(currentFiles)
             THEN Append(warnings,
                         CreateWarning(Len(warnings), "direct", "high", currentBranch,
                                       otherBranch, otherFile, otherFile, Null))
             ELSE IndirectWarnings(currentFiles, otherFile, g, currentBranch,
                                   otherBranch, warnings))

\* the loop over the other branches
RECURSIVE BranchWarnings(_, _, _, _, _)
BranchWarnings(otherBranches, currentFiles, g, currentBranch, warnings) ==
  IF otherBranches = <<>> THEN warnings
  ELSE BranchWarnings(Tail(otherBranches), currentFiles, g, currentBranch,
         OtherFileWarnings(Head(otherBranches).modifiedFiles, currentFiles, g,
                           currentBranch, Head(otherBranches).name, warnings))

\* warnings.sort by severity, a stable sort over three keys
SortBySeverity(warnings) ==
  LET IsHigh(w) == w.severity = "high"
      IsMedium(w) == w.severity = "medium"
      IsLow(w) == w.severity = "low"
  IN  SelectSeq(warnings, IsHigh) \o SelectSeq(warnings, IsMedium)
        \o SelectSeq(warnings, IsLow)

DetectConflicts(in) ==
  IF in.currentBranch = Null THEN <<>>
  ELSE IF in.base = Null THEN <<>>
  ELSE IF in.currentBranch = in.base THEN <<>>
  ELSE IF in.currentModifiedFiles = <<>> THEN <<>>
  ELSE SortBySeverity(BranchWarnings(in.otherBranches, in.currentModifiedFiles,
                                     in.graph, in.currentBranch[1], <<>>))

(***************************************************************************)
(* Watch mode: FileWatcher.stop, GitWatcher.stop and the shutdown handler  *)
(***************************************************************************)

\* FileWatcher.stop up to its await: the debounce timer is cleared
FileWatcherStopBegins(w) == [w EXCEPT !.debounceTimer = "null"]

\* FileWatcher.stop after `await this.watcher.close()`
FileWatcherStopEnds(w) == [w EXCEPT !.pendingChanges = {}]

\* GitWatcher.stop up to its await: the debounce timer is cleared; the
\* detectAndEmitEvent calls in flight are not touched
GitWatcherStopBegins(g) == [g EXCEPT !.debounceTimer = "null"]

\* watcher.close() was called on the FileWatcher's chokidar instance, which
\* delivers no event to its listeners from then on
FileWatcherClosing == shutdown # "running"

\* watcher.close() was called on the GitWatcher's chokidar instance
GitWatcherClosing == shutdown \notin {"running", "fileClosing"}

\* watcher.stop() has resolved
FileWatcherStopped == shutdown \notin {"running", "fileClosing"}

\* gitWatcher.stop() has resolved
GitWatcherStopped == shutdown \in {"wsClosing", "exited"}

(***************************************************************************)
(* Watch mode: snapshots and conflict warnings broadcast to the clients.   *)
(* The graph analyzeDirectory returns in the n-th run is named n.          *)
(***************************************************************************)

\* the analysis runs the model follows
MaxAnalyses == 3

\* runAnalysis as called by a handler or at start-up: the lock, and the run
\* that starts when the call enters the try block
CallRunAnalysis(b, inProgress, pending) ==
  LET r == RunAnalysis(inProgress, pending)
  IN  [analysisInProgress |-> r.analysisInProgress,
       analysisPending |-> r.analysisPending,
       broadcast |-> IF r.started
                     THEN [b EXCEPT !.runs = @ + 1,
                                    !.run = Some([graph |-> b.runs + 1,
                                                  pc |-> "analyzing"])]
                     ELSE b]

\* TopologyWsServer.broadcastSnapshot
BroadcastSnapshot(b, g) ==
  [b EXCEPT !.currentSnapshot = g,
            !.sent = Append(@, [type |-> "snapshot", graph |-> g])]

\* TopologyWsServer.broadcastConflictWarnings, for the warnings computed
\* from graph g
BroadcastConflictWarnings(b, g, nonEmpty) ==
  IF ~nonEmpty THEN b
  ELSE [b EXCEPT !.sent = Append(@, [type |-> "conflict_warning", graph |-> g])]

\* the graph of the last snapshot among the first n messages, 0 if none
RECURSIVE LastSnapshot(_, _)
LastSnapshot(sent, n) ==
  IF n = 0 THEN 0
  ELSE IF sent[n].type = "snapshot" THEN sent[n].graph
  ELSE LastSnapshot(sent, n - 1)

(***************************************************************************)
(* The plugin registry: register and getPluginForExtension                 *)
(***************************************************************************)

\* the register calls the model follows
MaxRegistrations == 3

PluginNames == {"typescript", "python"}

\* the extensions a plugin can declare, and their lower-case forms
DeclaredExtensions == {".ts", ".TS", ".py"}

LowerExtensions == {".ts", ".py"}

\* String.prototype.toLowerCase on the extensions of the fixture
ToLowerCase(ext) == IF ext = ".TS" THEN ".ts" ELSE ext

\* the plugin objects: `object` tells apart two plugins declaring the same
\* name and extensions
PluginObjects ==
  [name : PluginNames, extensions : SUBSET DeclaredExtensions \ {{}},
   object : 1..MaxRegistrations]

\* register warns when the NAME of the plugin is already registered
RegisterWarns(reg, plugin) == reg.plugins[plugin.name] # Null

\* PluginRegistry.register
Register(reg, plugin) ==
  [plugins |-> [reg.plugins EXCEPT ![plugin.name] = Some(plugin)],
   extensionMap |-> [e \in LowerExtensions |->
                       IF \E ext \in plugin.extensions : ToLowerCase(ext) = e
                       THEN Some(plugin)
                       ELSE reg.extensionMap[e]]]

\* PluginRegistry.getPluginForExtension
GetPluginForExtension(reg, ext) == reg.extensionMap[ToLowerCase(ext)]

(***************************************************************************)
(* Snapshot history: loadExistingData and saveTopologyData.                *)
(* The snapshot created by the n-th save is named n.  A number is Some(n), *)
(* or NaN (what parseInt gives for --max-snapshots when it is no number).  *)
(***************************************************************************)

\* the saves the model follows
MaxSaves == 4

NaN == Null

\* the values of options.maxSnapshots
MaxSnapshotsValues == {NaN} \cup {Some(n) : n \in -1..3}

\* `a > b` on numbers, false when b is NaN
GreaterThan(a, b) == b # NaN /\ a > b[1]

\* `a <= b` on numbers, false when b is NaN
AtMost(a, b) == b # NaN /\ a <= b[1]

\* Array.prototype.splice(0, count): the array that is left
SpliceFromStart(s, count) ==
  IF count <= 0 THEN s
  ELSE IF count >= Len(s) THEN <<>>
  ELSE SubSeq(s, count + 1, Len(s))

\* loadExistingData: the file's data, or null when the file is missing or
\* cannot be read or parsed
LoadExistingData(file, readable) == IF readable THEN file ELSE Null

\* saveTopologyData, history mode: trim to max snapshots (keep most recent)
Trim(snapshots, maxSnapshots) ==
  IF GreaterThan(Len(snapshots), maxSnapshots)
  THEN SpliceFromStart(snapshots, Len(snapshots) - maxSnapshots[1])
  ELSE snapshots

\* saveTopologyData: the data file written and returned
SaveTopologyData(existing, snapshot, history, maxSnapshots) ==
  IF history /\ existing # Null
  THEN LET kept == Trim(Append(existing[1].snapshots, snapshot), maxSnapshots)
       IN  Some([currentIndex |-> Len(kept) - 1, snapshots |-> kept])
  ELSE Some([currentIndex |-> 0, snapshots |-> <<snapshot>>])

(***************************************************************************)
(* TopologyState: initAuth, getCloudStore and close; resolveVectorConfig   *)
(* and createVectorStore.  A configuration section (pinecone, pgvector) is *)
(* modelled by whether it is present.                                      *)
(***************************************************************************)

\* the environment variables read by resolveVectorConfig: the provider tag
\* (Null when unset) and whether each credential is set
VectorEnvs ==
  [provider : {Null, Some("sqlite"), Some("pinecone"), Some("pgvector"), Some("other")},
   pineconeApiKey : BOOLEAN, pineconeIndex : BOOLEAN, pgvectorUrl : BOOLEAN]

NoVectorEnv ==
  [provider |-> Null, pineconeApiKey |-> FALSE, pineconeIndex |-> FALSE,
   pgvectorUrl |-> FALSE]

\* VectorProviderSchema
VectorProviders == {"sqlite", "pinecone", "pgvector"}

\* resolveVectorConfig without overrides: Null when VectorStoreConfigSchema
\* rejects the provider tag (parse throws)
ResolveVectorConfig(env) ==
  LET provider == IF env.provider = Null THEN "sqlite" ELSE env.provider[1]
  IN  IF provider \notin VectorProviders THEN Null
      ELSE Some([provider |-> provider,
                 pinecone |-> env.pineconeApiKey /\ env.pineconeIndex,
                 pgvector |-> env.pgvectorUrl])

\* the credentials the provider of a configuration requires are present
HasCredentials(config) ==
  CASE config.provider = "pinecone" -> config.pinecone
    [] config.provider = "pgvector" -> config.pgvector
    [] OTHER -> TRUE

\* createVectorStore: the store created, or Null when it throws (a missing
\* section, a missing CacheDb, or a failing store.init())
CreateVectorStore(config, hasCacheDb, initOk) ==
  CASE config.provider = "pinecone" ->
         IF ~config.pinecone THEN Null
         ELSE IF initOk THEN Some("pinecone") ELSE Null
    [] config.provider = "pgvector" ->
         IF ~config.pgvector THEN Null
         ELSE IF initOk THEN Some("pgvector") ELSE Null
    [] OTHER ->
         IF ~hasCacheDb THEN Null
         ELSE IF initOk THEN Some("sqlite") ELSE Null

\* the TopologyState after its constructor
Constructed(env) ==
  [env |-> env, phase |-> "constructed", cacheDb |-> FALSE,
   vectorStoreConfig |-> Null, cloudStore |-> Null, lastCall |-> Null]

\* TopologyState.initAuth: the cache store is opened and kept; then the
\* vector store configuration is resolved, which may throw
InitAuth(s) ==
  LET config == ResolveVectorConfig(s.env)
  IN  [s EXCEPT !.cacheDb = TRUE,
                !.vectorStoreConfig = config,
                !.phase = IF config = Null THEN "failed" ELSE "ready"]

\* TopologyState.getCloudStore: what the call returns ("store", "null", or
\* "error" when it rejects) and the state it leaves
GetCloudStore(s, initOk) ==
  LET cfg == s.vectorStoreConfig
      call(outcome, warned) ==
        [provider |-> IF cfg = Null THEN "none" ELSE cfg[1].provider,
         credentials |-> cfg # Null /\ HasCredentials(cfg[1]),
         outcome |-> outcome, warned |-> warned]
  IN  IF s.cloudStore # Null THEN [s EXCEPT !.lastCall = Some(call("store", FALSE))]
      ELSE IF cfg = Null \/ cfg[1].provider = "sqlite"
      THEN [s EXCEPT !.lastCall = Some(call("null", FALSE))]
      ELSE LET store == CreateVectorStore(cfg[1], s.cacheDb, initOk)
           IN  IF store # Null
               THEN [s EXCEPT !.cloudStore = store,
                              !.lastCall = Some(call("store", FALSE))]
               ELSE [s EXCEPT !.lastCall = Some(call("null", TRUE))]

(***************************************************************************)
(* The variables of each subsystem at rest                                 *)
(***************************************************************************)

EmptyTable == [p \in {} |-> Null]

NoLookup == [cache |-> "none", path |-> <<>>, hash |-> "", model |-> "",
             row |-> Null, result |-> Null]

CacheIdle ==
  /\ parsed_files = EmptyTable
  /\ embeddings = EmptyTable
  /\ lastGet = NoLookup

DbIdle ==
  /\ disk = NoFile
  /\ db = "null"
  /\ dbHandles = 0
  /\ lastOpen = [found |-> -1, recreated |-> FALSE]

WatchIdle ==
  /\ watchPhase = "starting"
  /\ analysisInProgress = FALSE
  /\ analysisPending = FALSE
  /\ watcher = [pendingChanges |-> {}, debounceTimer |-> "null"]
  /\ gitWatcher = [debounceTimer |-> "null", current |-> "", detections |-> <<>>]
  /\ gitDir = [head |-> "main@c1", mergeHead |-> FALSE]
  /\ watchLog = NoWatchLog

GraphIdle ==
  /\ buildInput = [parsedFiles |-> <<>>, gitDiff |-> Null, baseTree |-> EmptyTable]
  /\ builtGraph = Null

AnalyzeIdle ==
  /\ workTree = EmptyTable
  /\ options = [noCache |-> TRUE, noEmbeddings |-> TRUE, skipGitDiff |-> TRUE,
                similarityThreshold |-> 0, maxSemanticEdgesPerFile |-> 0]
  /\ analysis = NoAnalysis
  /\ analysisLog = NoAnalysisLog

RerunIdle == rerun = NoRerun

SignatureIdle == signatureCheck = Null

ResolveIdle == resolution = Null

DiscoveryIdle == discovery = Null

ConflictIdle == conflict = Null

ShutdownIdle == shutdown = "running"

BroadcastIdle ==
  broadcast = [runs |-> 0, run |-> Null, currentSnapshot |-> 0,
               detections |-> {}, sent |-> <<>>]

RegistryIdle ==
  /\ registry = [plugins |-> [n \in PluginNames |-> Null],
                 extensionMap |-> [e \in LowerExtensions |-> Null]]
  /\ registryLog = <<>>

SnapshotIdle ==
  /\ dataFile = Null
  /\ saveLog = [saves |-> 0, maxSnapshots |-> Some(1), allHistory |-> TRUE,
                allRead |-> TRUE]

ServerIdle == server = Constructed(NoVectorEnv)

(***************************************************************************)
(* The cache specification: any sequence of set, setBatch, prune and get   *)
(***************************************************************************)

\* the batches setBatch may be given: sequences of distinct-or-equal paths
Batches(S) == UNION {[1..n -> S] : n \in 0..MaxBatch}

ParsedInputs == {FixtureParsed(p, h) : p \in CachePaths, h \in Hashes}

EmbInputs ==
  {[filePath |-> p, contentHash |-> h, embedding |-> FixtureEmbedding(h, m),
    modelId |-> m] : p \in CachePaths, h \in Hashes, m \in Models}

\* ParseCache.set
ParseCacheSet ==
  \E parsed \in ParsedInputs :
    /\ parsed_files' = ParseUpsert(parsed_files, parsed)
    /\ UNCHANGED <<embeddings, lastGet, notCacheVars>>

\* ParseCache.setBatch: one transaction, committed whole or rolled back whole
ParseCacheSetBatch ==
  \E batch \in Batches(ParsedInputs), commits \in BOOLEAN :
    /\ parsed_files' = IF commits THEN ParseUpsertAll(parsed_files, batch)
                       ELSE parsed_files
    /\ UNCHANGED <<embeddings, lastGet, notCacheVars>>

\* ParseCache.prune
ParseCachePrune ==
  \E existingFiles \in SUBSET CachePaths :
    /\ parsed_files' = CachePrune(parsed_files, existingFiles)
    /\ UNCHANGED <<embeddings, lastGet, notCacheVars>>

\* a caller looks a path up under a content hash
ParseCacheLookup ==
  \E p \in CachePaths, h \in Hashes :
    /\ lastGet' = [cache |-> "parse", path |-> p, hash |-> h, model |-> "",
                   row |-> IF p \in DOMAIN parsed_files
                           THEN Some(parsed_files[p]) ELSE Null,
                   result |-> ParseCacheGet(parsed_files, p, h)]
    /\ UNCHANGED <<parsed_files, embeddings, notCacheVars>>

\* EmbeddingCache.set (also reached through SqliteVectorStore.upsert)
EmbeddingCacheSet ==
  \E item \in EmbInputs :
    /\ embeddings' = EmbUpsert(embeddings, item)
    /\ UNCHANGED <<parsed_files, lastGet, notCacheVars>>

\* EmbeddingCache.setBatch
EmbeddingCacheSetBatch ==
  \E batch \in Batches(EmbInputs), commits \in BOOLEAN :
    /\ embeddings' = IF commits THEN EmbUpsertAll(embeddings, batch)
                     ELSE embeddings
    /\ UNCHANGED <<parsed_files, lastGet, notCacheVars>>

\* EmbeddingCache.prune
EmbeddingCachePrune ==
  \E existingFiles \in SUBSET CachePaths :
    /\ embeddings' = CachePrune(embeddings, existingFiles)
    /\ UNCHANGED <<parsed_files, lastGet, notCacheVars>>

\* the analysis looks an embedding up while the encoder model m is active
EmbeddingCacheLookup ==
  \E p \in CachePaths, h \in Hashes :
    /\ lastGet' = [cache |-> "embedding", path |-> p, hash |-> h,
                   model |-> MODEL_ID,
                   row |-> IF p \in DOMAIN embeddings
                           THEN Some(embeddings[p]) ELSE Null,
                   result |-> EmbeddingCacheGet(embeddings, p, h)]
    /\ UNCHANGED <<parsed_files, embeddings, notCacheVars>>

InitCache == CacheIdle /\ DbIdle /\ StateIdle /\ ServerIdle /\ SnapshotIdle /\ RegistryIdle /\ BroadcastIdle /\ ShutdownIdle /\ ConflictIdle /\ DiscoveryIdle /\ ResolveIdle /\ SignatureIdle /\ RerunIdle /\ WatchIdle /\ GraphIdle /\ AnalyzeIdle

NextCache ==
  \/ ParseCacheSet
  \/ ParseCacheSetBatch
  \/ ParseCachePrune
  \/ ParseCacheLookup
  \/ EmbeddingCacheSet
  \/ EmbeddingCacheSetBatch
  \/ EmbeddingCachePrune
  \/ EmbeddingCacheLookup

SpecCache == InitCache /\ [][NextCache]_vars

(***************************************************************************)
(* C2: a lookup of path P under hash H2 is a miss whenever the row stored  *)
(* for P carries another content hash; a hit returns the payload that was  *)
(* stored under the queried hash, never one stored under another hash.     *)
(***************************************************************************)
CacheCoherency ==
  /\ lastGet.row # Null /\ lastGet.row[1].content_hash # lastGet.hash
       => lastGet.result = Null
  /\ lastGet.cache = "parse" /\ lastGet.result # Null
       => lastGet.result[1] = FixtureParsed(lastGet.path, lastGet.hash)
  /\ lastGet.cache = "embedding" /\ lastGet.result # Null
       => \E m \in Models : lastGet.result[1] = FixtureEmbedding(lastGet.hash, m)

\* a lookup under hash H2 found a row stored under another hash H1
CacheCoherencyWitness ==
  /\ lastGet.cache = "parse"
  /\ lastGet.row # Null
  /\ lastGet.row[1].content_hash # lastGet.hash

(***************************************************************************)
(* C10: an embedding cached under encoder model M1 is a miss when it is     *)
(* looked up while the active encoder model is another model M2.           *)
(***************************************************************************)
ModelChangeInvalidates ==
  /\ lastGet.cache = "embedding"
  /\ lastGet.row # Null
  /\ lastGet.row[1].model_id # lastGet.model
  => lastGet.result = Null

(***************************************************************************)
(* The CacheDb specification: open, write, close over the store on disk    *)
(***************************************************************************)

\* the most rows of schema_version, and the most connections, the model follows
MaxVersionRows == 2

MaxHandles == 2

\* the failures one call of open() may meet
Failures ==
  [open : BOOLEAN, pragma : BOOLEAN, read : BOOLEAN,
   migrateAt : 0..Len(SCHEMA_SQL),
   unlink : BOOLEAN, reopen : BOOLEAN, pragma2 : BOOLEAN,
   schemaAt : 0..Len(SCHEMA_SQL)]

\* a store as a release with schema version v leaves it
StoreOfVersion(v) ==
  [exists |-> TRUE, corrupt |-> FALSE,
   tables |-> {"schema_version", "parsed_files"}
              \cup (IF v >= 2 THEN {"embeddings"} ELSE {})
              \cup (IF v >= 3 THEN {"auth_config", "users", "api_keys", "audit_log"}
                    ELSE {})
              \cup (IF v >= 4 THEN {"vector_sync_state"} ELSE {}),
   versions |-> <<v>>, data |-> TRUE]

\* the stores open() may find: none, one left by an older, the current or a
\* newer release, or a file that is no database
InitialStores ==
  {NoFile, [NoFile EXCEPT !.exists = TRUE, !.corrupt = TRUE]}
  \cup {StoreOfVersion(v) : v \in 1..(CURRENT_SCHEMA_VERSION + 1)}

\* new CacheDb(...).open()
DbOpen ==
  /\ db = "null"
  /\ dbHandles < MaxHandles
  /\ Len(disk.versions) < MaxVersionRows
  /\ \E f \in Failures :
       LET out == CacheDbOpen(disk, dbHandles, f)
       IN  /\ disk' = out.disk
           /\ db' = out.db
           /\ dbHandles' = out.conns
           /\ lastOpen' = [found |-> FoundVersion(disk, f),
                           recreated |-> out.recreated]
  /\ UNCHANGED notDbVars

\* rows are written through the open handle
DbWrite ==
  /\ db = "open"
  /\ "parsed_files" \in disk.tables
  /\ disk' = [disk EXCEPT !.data = TRUE]
  /\ UNCHANGED <<db, dbHandles, lastOpen, notDbVars>>

\* close()
DbClose ==
  /\ db = "open"
  /\ db' = "null"
  /\ dbHandles' = dbHandles - 1
  /\ UNCHANGED <<disk, lastOpen, notDbVars>>

\* an unclosed connection is finalized by the garbage collector
DbFinalize ==
  /\ dbHandles > (IF db = "open" THEN 1 ELSE 0)
  /\ dbHandles' = dbHandles - 1
  /\ UNCHANGED <<disk, db, lastOpen, notDbVars>>

InitDb ==
  /\ CacheIdle
  /\ StateIdle /\ ServerIdle /\ SnapshotIdle /\ RegistryIdle /\ BroadcastIdle /\ ShutdownIdle /\ ConflictIdle /\ DiscoveryIdle /\ ResolveIdle /\ SignatureIdle /\ RerunIdle
  /\ WatchIdle
  /\ GraphIdle
  /\ AnalyzeIdle
  /\ disk \in InitialStores
  /\ db = "null"
  /\ dbHandles = 0
  /\ lastOpen = [found |-> -1, recreated |-> FALSE]

NextDb == DbOpen \/ DbWrite \/ DbClose \/ DbFinalize

SpecDb == InitDb /\ [][NextDb]_vars

(***************************************************************************)
(* C8: when open() finds a store whose version marker is greater than      *)
(* CURRENT_SCHEMA_VERSION, the store is deleted and recreated.             *)
(***************************************************************************)
NewerStoreRecreated ==
  lastOpen.found > CURRENT_SCHEMA_VERSION => lastOpen.recreated

(***************************************************************************)
(* C9: after open() returns, the cache is either open with every table of  *)
(* the current schema or not open at all.                                  *)
(***************************************************************************)
NeverHalfInitialized ==
  db = "open" => ~disk.corrupt /\ AllTables \subseteq disk.tables

(***************************************************************************)
(* The TopologyState specification: callers of refresh and ensureGraph,    *)
(* the analysis in flight and its then / catch callbacks                   *)
(***************************************************************************)

\* the synchronous part of refresh(), for caller c
RefreshBody(c) ==
  IF JoinsInFlight(analyzeInProgress)
  THEN /\ callerAwaits' = [callerAwaits EXCEPT ![c] = analyzeInProgress[1]]
       /\ UNCHANGED <<analyzeInProgress, runState>>
  ELSE \E r \in Runs :
         /\ runState[r] = "new"
         /\ \A q \in Runs : q < r => runState[q] # "new"
         /\ runState' = [runState EXCEPT ![r] = "running"]
         /\ analyzeInProgress' = Some(r)
         /\ callerAwaits' = [callerAwaits EXCEPT ![c] = r]

\* refresh(options)
Refresh(c) ==
  /\ callerPc[c] = "idle"
  /\ RefreshBody(c)
  /\ callerPc' = [callerPc EXCEPT ![c] = "waiting"]
  /\ callerCall' = [callerCall EXCEPT ![c] =
                      [kind |-> "refresh", inFlight |-> analyzeInProgress,
                       held |-> graph # Null]]
  /\ UNCHANGED <<graph, callerGot, notStateVars>>

\* ensureGraph(options)
EnsureGraph(c) ==
  /\ callerPc[c] = "idle"
  /\ IF ServedFromGraph(graph)
     THEN /\ callerPc' = [callerPc EXCEPT ![c] = "done"]
          /\ callerGot' = [callerGot EXCEPT ![c] = graph]
          /\ UNCHANGED <<analyzeInProgress, runState, callerAwaits>>
     ELSE /\ RefreshBody(c)
          /\ callerPc' = [callerPc EXCEPT ![c] = "waiting"]
          /\ UNCHANGED callerGot
  /\ callerCall' = [callerCall EXCEPT ![c] =
                      [kind |-> "ensureGraph", inFlight |-> analyzeInProgress,
                       held |-> graph # Null]]
  /\ UNCHANGED <<graph, notStateVars>>

\* analyzeDirectory's promise settles: the pipeline has ended
AnalysisSettles(r) ==
  /\ runState[r] = "running"
  /\ \E outcome \in {"fulfilled", "rejected"} :
       runState' = [runState EXCEPT ![r] = outcome]
  /\ UNCHANGED <<graph, analyzeInProgress, callerPc, callerAwaits, callerGot,
                 callerCall, notStateVars>>

\* the .then callback
ThenCallback(r) ==
  /\ runState[r] = "fulfilled"
  /\ graph' = Some(r)
  /\ analyzeInProgress' = Null
  /\ runState' = [runState EXCEPT ![r] = "resolved"]
  /\ UNCHANGED <<callerPc, callerAwaits, callerGot, callerCall, notStateVars>>

\* the .catch callback without its first statement
CatchCallbackKeepsMarker(r) ==
  /\ runState[r] = "rejected"
  /\ runState' = [runState EXCEPT ![r] = "failed"]
  /\ UNCHANGED <<graph, analyzeInProgress, callerPc, callerAwaits, callerGot,
                 callerCall, notStateVars>>

\* the .catch callback
CatchCallback(r) ==
  /\ runState[r] = "rejected"
  /\ analyzeInProgress' = Null
  /\ runState' = [runState EXCEPT ![r] = "failed"]
  /\ UNCHANGED <<graph, callerPc, callerAwaits, callerGot, callerCall,
                 notStateVars>>

\* a caller's await on the promise it was handed completes
CallerReceives(c) ==
  /\ callerPc[c] = "waiting"
  /\ Settled(callerAwaits[c])
  /\ callerPc' = [callerPc EXCEPT ![c] = "done"]
  /\ callerGot' = [callerGot EXCEPT ![c] =
                     Some([run |-> callerAwaits[c],
                           outcome |-> runState[callerAwaits[c]]])]
  /\ UNCHANGED <<graph, analyzeInProgress, runState, callerAwaits, callerCall,
                 notStateVars>>

\* the caller makes another call later
CallerReturns(c) ==
  /\ callerPc[c] = "done"
  /\ callerPc' = [callerPc EXCEPT ![c] = "idle"]
  /\ callerAwaits' = [callerAwaits EXCEPT ![c] = 0]
  /\ callerGot' = [callerGot EXCEPT ![c] = Null]
  /\ callerCall' = [callerCall EXCEPT ![c] = NoCall]
  /\ UNCHANGED <<graph, analyzeInProgress, runState, notStateVars>>

InitState == CacheIdle /\ DbIdle /\ StateIdle /\ ServerIdle /\ SnapshotIdle /\ RegistryIdle /\ BroadcastIdle /\ ShutdownIdle /\ ConflictIdle /\ DiscoveryIdle /\ ResolveIdle /\ SignatureIdle /\ RerunIdle /\ WatchIdle /\ GraphIdle /\ AnalyzeIdle

NextState ==
  \/ \E c \in Callers : Refresh(c)
  \/ \E c \in Callers : EnsureGraph(c)
  \/ \E r \in Runs : AnalysisSettles(r)
  \/ \E r \in Runs : ThenCallback(r)
  \/ \E r \in Runs : CatchCallback(r)
  \/ \E c \in Callers : CallerReceives(c)
  \/ \E c \in Callers : CallerReturns(c)

SpecState == InitState /\ [][NextState]_vars

(***************************************************************************)
(* C3 (as stated): while an analysis is in flight, every further refresh   *)
(* or ensureGraph call joins that computation and receives its result, and *)
(* the pipeline never runs twice at the same time.                         *)
(***************************************************************************)
EveryCallJoinsInFlight ==
  /\ Cardinality(Running) <= 1
  /\ \A c \in Callers :
       callerCall[c].inFlight # Null
         => callerAwaits[c] = callerCall[c].inFlight[1]

(***************************************************************************)
(* C3 (amended): the pipeline never runs twice at the same time; while an  *)
(* analysis is in flight, every refresh call, and every ensureGraph call   *)
(* made while no graph is held, is handed the promise of that analysis and *)
(* receives its outcome; an ensureGraph call made while a graph is held    *)
(* returns the held graph without joining.                                 *)
(***************************************************************************)
SingleFlight ==
  /\ Cardinality(Running) <= 1
  /\ \A r \in Running : analyzeInProgress = Some(r)
  /\ \A c \in Callers :
       /\ callerCall[c].inFlight # Null
       /\ callerCall[c].kind = "refresh" \/ ~callerCall[c].held
       => /\ callerAwaits[c] = callerCall[c].inFlight[1]
          /\ callerPc[c] = "done"
               => callerGot[c] = Some([run |-> callerAwaits[c],
                                       outcome |-> runState[callerAwaits[c]]])
  /\ \A c \in Callers :
       /\ callerCall[c].kind = "ensureGraph"
       /\ callerCall[c].held
       => callerAwaits[c] = 0 /\ callerPc[c] = "done" /\ callerGot[c] # Null
  /\ \A c \in Callers :
       callerPc[c] = "waiting" /\ ~Settled(callerAwaits[c])
         => analyzeInProgress = Some(callerAwaits[c])

\* two callers wait on the same run while its pipeline is executing, one of
\* them having called while it was in flight
SingleFlightWitness ==
  \E c1, c2 \in Callers :
    /\ c1 # c2
    /\ callerPc[c1] = "waiting" /\ callerPc[c2] = "waiting"
    /\ callerAwaits[c1] = callerAwaits[c2]
    /\ callerAwaits[c1] \in Running
    /\ callerCall[c2].inFlight = Some(callerAwaits[c1])

\* no analysis is in flight: every run has settled or has not been started
NoneInFlight == \A r \in Runs : runState[r] = "new" \/ Settled(r)

(***************************************************************************)
(* C26: once the promise refresh handed out has settled, fulfilled or      *)
(* rejected, the in-flight marker no longer holds it, and a refresh call   *)
(* made when no analysis is in flight starts a run that had not been       *)
(* started before and is never handed a settled one.                       *)
(***************************************************************************)
MarkerClearedOnSettle ==
  /\ [](\A r \in Runs : Settled(r) => analyzeInProgress # Some(r))
  /\ [][\A c \in Callers :
          callerCall[c] = NoCall /\ callerCall'[c].kind = "refresh"
            => /\ ~Settled(callerAwaits'[c])
               /\ NoneInFlight => /\ runState[callerAwaits'[c]] = "new"
                                  /\ runState'[callerAwaits'[c]] = "running"
                                  /\ analyzeInProgress' = Some(callerAwaits'[c])]_vars

\* a refresh rejected, and a later refresh call is waiting on a new run
MarkerClearedOnSettleWitness ==
  \E c \in Callers, r, q \in Runs :
    /\ runState[r] = "failed"
    /\ runState[q] = "running"
    /\ analyzeInProgress = Some(q)
    /\ callerCall[c].kind = "refresh"
    /\ callerCall[c].inFlight = Null
    /\ callerAwaits[c] = q

(***************************************************************************)
(* The watch-mode specification: the initial run, then file and .git       *)
(* events, debounce timers, git event detection and analysis completions   *)
(***************************************************************************)

WatchPaths == {PathA, PathB}

\* the log after a handler called runAnalysis
Triggered(log) ==
  [log EXCEPT !.triggers = @ + 1,
              !.queued = IF analysisInProgress THEN @ + 1 ELSE @]

\* the log after an event of the given kind arrived: the event continues the
\* burst when the timer armed by the previous event is still pending
BurstLogged(log, kind) ==
  LET continues == \/ log.last = "file" /\ watcher.debounceTimer = "armed"
                   \/ log.last = "git" /\ gitWatcher.debounceTimer = "armed"
  IN  IF Quiescent
      THEN [log EXCEPT !.events = @ + 1, !.bursts = 1, !.triggers = 0,
                       !.last = kind, !.hadFile = (kind = "file")]
      ELSE IF continues
      THEN [log EXCEPT !.events = @ + 1, !.last = kind,
                       !.hadFile = @ \/ (kind = "file")]
      ELSE [log EXCEPT !.events = @ + 1, !.bursts = @ + 1, !.last = kind,
                       !.hadFile = @ \/ (kind = "file")]

\* `await runAnalysis()` at start-up
InitialRun ==
  /\ watchPhase = "starting"
  /\ watchPhase' = "initial"
  /\ LET r == RunAnalysis(analysisInProgress, analysisPending)
     IN  /\ analysisInProgress' = r.analysisInProgress
         /\ analysisPending' = r.analysisPending
         /\ watchLog' = [watchLog EXCEPT !.executing = Executing(@, r)]
  /\ UNCHANGED <<watcher, gitWatcher, gitDir, notWatchVars>>

\* `await watcher.start(); await gitWatcher.start()` once the initial run ended
StartWatchers ==
  /\ watchPhase = "initial"
  /\ ~analysisInProgress
  /\ watchPhase' = "watching"
  /\ gitWatcher' = [gitWatcher EXCEPT !.current = gitDir.head]
  /\ UNCHANGED <<analysisInProgress, analysisPending, watcher, gitDir, watchLog,
                 notWatchVars>>

\* chokidar reports an add / change / unlink of a source file
FileChange ==
  \E path \in WatchPaths :
    /\ watchPhase = "watching"
    /\ watchLog.events < MaxEvents
    /\ watcher' = HandleChange(watcher, path)
    /\ LET armed == watcher.debounceTimer = "armed"
           log == BurstLogged(watchLog, "file")
       IN  watchLog' = [log EXCEPT
             !.fileBursts = IF armed THEN @ ELSE @ + 1,
             !.burstPaths = IF armed THEN @ \cup {path} ELSE {path}]
    /\ UNCHANGED <<watchPhase, analysisInProgress, analysisPending, gitWatcher,
                   gitDir, notWatchVars>>

\* the FileWatcher timer expires: flushChanges emits one 'changes' event,
\* whose handler calls runAnalysis
FlushChanges ==
  /\ watcher.debounceTimer = "armed"
  /\ IF watcher.pendingChanges = {}
     THEN /\ watcher' = [watcher EXCEPT !.debounceTimer = "stale"]
          /\ UNCHANGED <<analysisInProgress, analysisPending, watchLog>>
     ELSE /\ watcher' = [pendingChanges |-> {}, debounceTimer |-> "null"]
          /\ LET r == RunAnalysis(analysisInProgress, analysisPending)
             IN  /\ analysisInProgress' = r.analysisInProgress
                 /\ analysisPending' = r.analysisPending
                 /\ watchLog' = [Triggered(watchLog) EXCEPT
                      !.fileEmits = @ + 1,
                      !.lastChanges = watcher.pendingChanges,
                      !.executing = Executing(@, r)]
  /\ UNCHANGED <<watchPhase, gitWatcher, gitDir, notWatchVars>>

\* a git operation writes under .git (HEAD, refs/heads, MERGE_HEAD)
GitDirChange ==
  \E head \in Heads, mergeHead \in BOOLEAN :
    /\ watchPhase = "watching"
    /\ watchLog.events < MaxEvents
    /\ gitDir' = [head |-> head, mergeHead |-> mergeHead]
    /\ gitWatcher' = HandleGitFileChange(gitWatcher)
    /\ watchLog' = [BurstLogged(watchLog, "git") EXCEPT
         !.gitBursts = IF gitWatcher.debounceTimer = "armed" THEN @ ELSE @ + 1]
    /\ UNCHANGED <<watchPhase, analysisInProgress, analysisPending, watcher,
                   notWatchVars>>

\* the GitWatcher timer expires: detectAndEmitEvent starts, remembers the
\* previous branch and commit, and awaits readCurrentState
DetectStarts ==
  /\ gitWatcher.debounceTimer = "armed"
  /\ gitWatcher' = [gitWatcher EXCEPT
       !.debounceTimer = "stale",
       !.detections = Append(@, [previous |-> gitWatcher.current,
                                 pc |-> "reading"])]
  /\ watchLog' = [watchLog EXCEPT !.gitExpiries = @ + 1]
  /\ UNCHANGED <<watchPhase, analysisInProgress, analysisPending, watcher,
                 gitDir, notWatchVars>>

\* readCurrentState of a detection completes
DetectReads ==
  \E i \in DOMAIN gitWatcher.detections :
    /\ gitWatcher.detections[i].pc = "reading"
    /\ gitWatcher' = [gitWatcher EXCEPT
         !.current = gitDir.head,
         !.detections[i].pc = "probing"]
    /\ UNCHANGED <<watchPhase, analysisInProgress, analysisPending, watcher,
                   gitDir, watchLog, notWatchVars>>

\* a detection probes MERGE_HEAD, compares and emits 'git_event' (whose
\* handler calls runAnalysis) or returns without emitting
DetectEmits ==
  \E i \in DOMAIN gitWatcher.detections :
    LET d == gitWatcher.detections[i]
        rest == [j \in 1..(Len(gitWatcher.detections) - 1) |->
                   gitWatcher.detections[IF j < i THEN j ELSE j + 1]]
    IN  /\ d.pc = "probing"
        /\ gitWatcher' = [gitWatcher EXCEPT !.detections = rest]
        /\ IF GitEventEmitted(d.previous, gitWatcher.current, gitDir.mergeHead)
           THEN /\ LET r == RunAnalysis(analysisInProgress, analysisPending)
                   IN  /\ analysisInProgress' = r.analysisInProgress
                       /\ analysisPending' = r.analysisPending
                       /\ watchLog' = [Triggered(watchLog) EXCEPT
                            !.gitEmits = @ + 1,
                            !.executing = Executing(@, r)]
           ELSE UNCHANGED <<analysisInProgress, analysisPending, watchLog>>
        /\ UNCHANGED <<watchPhase, watcher, gitDir, notWatchVars>>

\* the run in flight ends, by its try block completing or by its catch
\* block, and the finally block runs
AnalysisCompletes ==
  \E ok \in BOOLEAN :
    /\ watchLog.executing > 0
    /\ LET r == RunAnalysisFinally(analysisPending)
       IN  /\ analysisInProgress' = r.analysisInProgress
           /\ analysisPending' = r.analysisPending
           /\ watchLog' = [watchLog EXCEPT
                !.outcome = IF ok THEN "complete" ELSE "failed",
                !.lastQueued = watchLog.queued,
                !.owed = IF watchLog.queued > 0 THEN @ + 1 ELSE @,
                !.followUps = IF r.analysisInProgress THEN @ + 1 ELSE @,
                !.executing = Executing(@ - 1, r),
                !.queued = 0]
    /\ UNCHANGED <<watchPhase, watcher, gitWatcher, gitDir, notWatchVars>>

InitWatch == CacheIdle /\ DbIdle /\ StateIdle /\ ServerIdle /\ SnapshotIdle /\ RegistryIdle /\ BroadcastIdle /\ ShutdownIdle /\ ConflictIdle /\ DiscoveryIdle /\ ResolveIdle /\ SignatureIdle /\ RerunIdle /\ WatchIdle /\ GraphIdle /\ AnalyzeIdle

NextWatch ==
  \/ InitialRun
  \/ StartWatchers
  \/ FileChange
  \/ FlushChanges
  \/ GitDirChange
  \/ DetectStarts
  \/ DetectReads
  \/ DetectEmits
  \/ AnalysisCompletes

SpecWatch == InitWatch /\ [][NextWatch]_vars

(***************************************************************************)
(* C25: in watch mode at most one analysis run is executing at any time,   *)
(* whatever the order of the initial run, the 'changes' events and the     *)
(* 'git_event' events; a run is executing exactly while the lock is held.  *)
(***************************************************************************)
AtMostOneRun ==
  /\ watchLog.executing <= 1
  /\ analysisInProgress <=> watchLog.executing = 1

\* a run is executing after the file watcher and the git watcher both
\* called runAnalysis, one of them while a run was in flight
AtMostOneRunWitness ==
  /\ watchLog.executing = 1
  /\ analysisPending
  /\ watchLog.fileEmits > 0
  /\ watchLog.gitEmits > 0

(***************************************************************************)
(* C4: when triggers arrive while an analysis is in flight, exactly one    *)
(* follow-up run is started when that analysis completes, whether it       *)
(* succeeded or failed: a trigger that arrived during a run is pending     *)
(* until the run ends, every completion with triggers queued starts one    *)
(* follow-up, and no completion without queued triggers starts any.        *)
(***************************************************************************)
ExactlyOneFollowUp ==
  /\ watchLog.followUps = watchLog.owed
  /\ analysisPending <=> watchLog.queued > 0
  /\ analysisPending => analysisInProgress

\* a failed run during which two triggers arrived has ended and one
\* follow-up run is in flight
ExactlyOneFollowUpWitness ==
  /\ watchLog.lastQueued >= 2
  /\ watchLog.outcome = "failed"
  /\ watchLog.followUps = 1
  /\ analysisInProgress
  /\ ~analysisPending

(***************************************************************************)
(* C5 (as stated): a burst of file and / or .git events, each arriving     *)
(* while the debounce timer armed by the previous one is pending, yields   *)
(* exactly one analysis trigger.  Stated for the bursts that hold a file   *)
(* change, once every timer has expired and every detection has ended.     *)
(***************************************************************************)
BurstYieldsOneTrigger ==
  Quiescent /\ watchLog.bursts = 1 /\ watchLog.hadFile
    => watchLog.triggers = 1

(***************************************************************************)
(* C5 (amended): each watcher coalesces its own bursts.  Every burst of    *)
(* file changes ends in exactly one 'changes' event that carries every     *)
(* path changed in the burst; every burst of .git changes ends in exactly  *)
(* one detection pass, which emits at most one 'git_event'; the triggers   *)
(* of a burst are the events the two watchers emitted for it.              *)
(***************************************************************************)
PerWatcherCoalescing ==
  LET fileArmed == watcher.debounceTimer = "armed"
      gitArmed == gitWatcher.debounceTimer = "armed"
  IN  /\ watchLog.fileEmits = watchLog.fileBursts - (IF fileArmed THEN 1 ELSE 0)
      /\ fileArmed => watcher.pendingChanges = watchLog.burstPaths
      /\ ~fileArmed /\ watchLog.fileBursts > 0
           => watchLog.lastChanges = watchLog.burstPaths
      /\ watchLog.gitExpiries = watchLog.gitBursts - (IF gitArmed THEN 1 ELSE 0)
      /\ watchLog.gitEmits <= watchLog.gitExpiries - Len(gitWatcher.detections)

\* a burst of two file changes and a .git change has ended: one 'changes'
\* event carried both paths and one 'git_event' was emitted
PerWatcherCoalescingWitness ==
  /\ Quiescent
  /\ watchLog.bursts = 1
  /\ watchLog.lastChanges = WatchPaths
  /\ watchLog.fileEmits = 1
  /\ watchLog.gitEmits = 1
  /\ watchLog.triggers = 2

(***************************************************************************)
(* The graph-builder specification: buildGraph applied to parsed files, a  *)
(* diff result and the tree of the base branch                             *)
(***************************************************************************)

\* the content every file of the fixture has in the working tree, and the
\* contents a file can have on the base branch
WorkContent == [exports |-> "x", text |-> "t1"]

BaseContents == {WorkContent,
                 [exports |-> "x", text |-> "t0"],
                 [exports |-> "y", text |-> "t0"]}

RelativeImport(segs, js) == [isRelative |-> TRUE, segs |-> segs, js |-> js, dots |-> 0]

PackageImport(name) == [isRelative |-> FALSE, segs |-> <<name>>, js |-> FALSE, dots |-> 0]

\* the import lists each file of the fixture can have
ImportLists ==
  [p \in Paths |->
     IF p = PathA
     THEN {<<>>,
           <<RelativeImport(<<".", "b">>, FALSE)>>,
           <<RelativeImport(<<".", "util">>, FALSE), RelativeImport(<<".", "b">>, FALSE)>>,
           <<PackageImport("react"), RelativeImport(<<".", "util", "index">>, TRUE)>>,
           <<RelativeImport(<<".", "b">>, FALSE), RelativeImport(<<".", "b">>, TRUE)>>}
     ELSE IF p = PathB
     THEN {<<>>, <<RelativeImport(<<".", "a.ts">>, FALSE)>>}
     ELSE {<<>>, <<RelativeImport(<<"..", "a">>, FALSE)>>}]

ParsedFileOf(p, imports) ==
  [filePath |-> p, language |-> "typescript", imports |-> imports,
   exportSignature |-> ParseContentForExports(WorkContent)]

\* what the diff says of a file and what the base branch holds for it:
\* unchanged files are the same on the base branch, added files are absent
\* from it, modified and deleted files are present on it
RepoFileStates ==
  {[status |-> "UNCHANGED", base |-> Some(WorkContent)],
   [status |-> "ADDED", base |-> Null]}
    \cup {[status |-> "MODIFIED", base |-> Some(c)] : c \in BaseContents \ {WorkContent}}
    \cup {[status |-> "DELETED", base |-> Some(c)] : c \in BaseContents \ {WorkContent}}

\* the results of getGitDiff: a diff against a base branch, a result without
\* a base branch, or no diff at all (skipGitDiff)
DiffInputs ==
  {[gitDiff |-> Some([baseBranch |-> Some("main"),
                      fileStatus |-> [p \in {q \in Paths : r[q].status # "UNCHANGED"}
                                        |-> r[p].status]]),
    baseTree |-> [p \in Paths |-> r[p].base]] : r \in [Paths -> RepoFileStates]}
    \cup {[gitDiff |-> g, baseTree |-> [p \in Paths |-> Null]] :
            g \in {Null, Some([baseBranch |-> Null, fileStatus |-> EmptyTable])}}

ParsedFileLists ==
  {<<ParsedFileOf(PathA, ia), ParsedFileOf(PathB, ib)>> \o tail :
     ia \in ImportLists[PathA], ib \in ImportLists[PathB],
     tail \in {<<>>} \cup {<<ParsedFileOf(PathU, iu)>> : iu \in ImportLists[PathU]}}

\* buildGraph runs on the input
Build ==
  /\ builtGraph = Null
  /\ builtGraph' = Some(BuildGraph(buildInput.parsedFiles, buildInput.gitDiff,
                                   buildInput.baseTree))
  /\ UNCHANGED <<buildInput, notGraphVars>>

InitGraph ==
  /\ CacheIdle /\ DbIdle /\ StateIdle /\ ServerIdle /\ SnapshotIdle /\ RegistryIdle /\ BroadcastIdle /\ ShutdownIdle /\ ConflictIdle /\ DiscoveryIdle /\ ResolveIdle /\ SignatureIdle /\ RerunIdle /\ WatchIdle /\ AnalyzeIdle
  /\ builtGraph = Null
  /\ \E files \in ParsedFileLists, d \in DiffInputs :
       buildInput = [parsedFiles |-> files, gitDiff |-> d.gitDiff,
                     baseTree |-> d.baseTree]

NextGraph == Build

SpecGraph == InitGraph /\ [][NextGraph]_vars

\* the status of the node with the given id, and whether the export
\* signature of a parsed file differs from the one of its base-branch version
StatusInGraph(g, id) == (CHOOSE n \in Range(g.nodes) : n.id = id).status

SignatureChangedAtBase(id) ==
  /\ buildInput.gitDiff # Null
  /\ buildInput.gitDiff[1].baseBranch # Null
  /\ buildInput.baseTree[id] # Null
  /\ \E f \in Range(buildInput.parsedFiles) :
       /\ f.filePath = id
       /\ ParseContentForExports(buildInput.baseTree[id][1]) # f.exportSignature

(***************************************************************************)
(* C30: the graph buildGraph returns holds at most one dependency edge for *)
(* each ordered pair of importer and target, also when several imports of  *)
(* the importer resolve to the same target.                                *)
(***************************************************************************)
OneEdgePerPair ==
  builtGraph # Null =>
    \A i, j \in DOMAIN builtGraph[1].edges :
      /\ builtGraph[1].edges[i].source = builtGraph[1].edges[j].source
      /\ builtGraph[1].edges[i].target = builtGraph[1].edges[j].target
      => i = j

ContentA ==
  [text |-> "a1", parses |-> TRUE, exports |-> "x", vector |-> <<2, 0>>,
   imports |-> <<RelativeImport(<<".", "util">>, FALSE)>>]

\* b.ts, in a version the parser handles and in one it returns null for
ContentB(parses) ==
  [text |-> IF parses THEN "b1" ELSE "b0", parses |-> parses, exports |-> "x", vector |-> <<2, 1>>,
   imports |-> <<>>]

ContentU ==
  [text |-> "u1", parses |-> TRUE, exports |-> "x", vector |-> <<1, 2>>,
   imports |-> <<>>]

\* an earlier version of a.ts
ContentA0 == [ContentA EXCEPT !.text = "a0", !.vector = <<0, 2>>]

TreeOf(files, parsesB) ==
  [p \in files |-> IF p = PathA THEN ContentA
                   ELSE IF p = PathB THEN ContentB(parsesB) ELSE ContentU]

WorkTrees == {TreeOf(files, parsesB) :
                files \in {{PathA, PathB}, Paths}, parsesB \in BOOLEAN}

\* the rows an earlier pass left for a tree
CacheLeftBy(tree) ==
  LET files == Glob(tree, GlobOrder)
      parsed == ParseLoop(files, tree, {}, EmptyTable, FALSE)
      embedded == EmbedLoop(ReadFileContents(files, tree, {}), {}, EmptyTable, FALSE)
  IN  [parsed_files |-> ParseUpsertAll(EmptyTable, parsed.newlyParsed),
       embeddings |-> EmbUpsertAll(EmptyTable, embedded.newEmbeddings)]

\* no cache yet; the cache of the same tree; the cache of a tree in which
\* a.ts had other content and util/index.ts existed
PriorCaches ==
  {[parsed_files |-> EmptyTable, embeddings |-> EmptyTable],
   CacheLeftBy(TreeOf(Paths, TRUE)),
   CacheLeftBy([TreeOf({PathA, PathU}, TRUE) EXCEPT ![PathA] = ContentA0])}

AnalyzeOptionSets ==
  {[noCache |-> FALSE, noEmbeddings |-> FALSE, skipGitDiff |-> TRUE,
    similarityThreshold |-> 2, maxSemanticEdgesPerFile |-> 1],
   [noCache |-> FALSE, noEmbeddings |-> FALSE, skipGitDiff |-> FALSE,
    similarityThreshold |-> 3, maxSemanticEdgesPerFile |-> 2],
   [noCache |-> TRUE, noEmbeddings |-> FALSE, skipGitDiff |-> TRUE,
    similarityThreshold |-> 4, maxSemanticEdgesPerFile |-> 2],
   [noCache |-> FALSE, noEmbeddings |-> TRUE, skipGitDiff |-> TRUE,
    similarityThreshold |-> 3, maxSemanticEdgesPerFile |-> 2]}

\* the diff results of the pass: only a.ts may differ from the base branch
AnalysisDiffs ==
  {d \in DiffInputs :
     /\ d.gitDiff # Null
     /\ \A p \in DOMAIN d.gitDiff[1].fileStatus :
          p = PathA /\ d.gitDiff[1].fileStatus[p] = "MODIFIED"}

\* what no step of the pass changes
analyzeFrame == <<lastGet, disk, lastOpen, stateVars, watchVars, graphVars,
                  rerunVars, signatureVars, resolveVars, discoveryVars, conflictVars,
                  shutdownVars, broadcastVars, registryVars, snapshotVars,
                  serverVars>>

\* glob, then the cache is opened unless noCache is set; a failure to open
\* it leaves the pass without a cache, and so does a failure of the
\* ParseCache constructor after open() returned: the catch block drops the
\* reference to the handle without closing it
StartAnalysis ==
  /\ analysis.pc = "start"
  /\ \E opened \in BOOLEAN, prepared \in BOOLEAN :
       /\ opened => ~options.noCache
       /\ prepared => opened
       /\ analysis' = [analysis EXCEPT !.pc = "parse",
                                       !.files = Glob(workTree, GlobOrder),
                                       !.cacheDb = prepared]
       /\ db' = IF opened THEN "open" ELSE db
       /\ dbHandles' = IF opened THEN dbHandles + 1 ELSE dbHandles
  /\ UNCHANGED <<workTree, options, analysisLog, parsed_files, embeddings, analyzeFrame>>

\* the parse loop; any of the files may be unreadable.  parseCache.get is
\* called for every file that was read and stands outside every try block:
\* when it throws (a failing read of the store, a row whose imports_json
\* does not parse) the exception leaves analyzeDirectory
ParseFiles ==
  /\ analysis.pc = "parse"
  /\ \E unreadable \in SUBSET Range(analysis.files), getThrows \in BOOLEAN :
       /\ getThrows => analysis.cacheDb /\ Range(analysis.files) \ unreadable # {}
       /\ IF getThrows
          THEN /\ analysis' = [analysis EXCEPT !.pc = "thrown"]
               /\ analysisLog' = [analysisLog EXCEPT !.thrownBy = "parseCache.get"]
          ELSE /\ LET r == ParseLoop(analysis.files, workTree, unreadable,
                                     parsed_files, analysis.cacheDb)
                  IN  analysis' = [analysis EXCEPT !.pc = "writeParse",
                                                   !.parsedFiles = r.parsedFiles,
                                                   !.newlyParsed = r.newlyParsed]
               /\ UNCHANGED analysisLog
  /\ UNCHANGED <<workTree, options, parsed_files, embeddings, db, dbHandles,
                 analyzeFrame>>

\* parseCache.setBatch(newlyParsed): the transaction commits, or it throws
\* and nothing is written
WriteParseCache ==
  /\ analysis.pc = "writeParse"
  /\ analysis' = [analysis EXCEPT !.pc = "pruneParse"]
  /\ IF analysis.cacheDb /\ analysis.newlyParsed # <<>>
     THEN \E committed \in BOOLEAN :
            IF committed
            THEN /\ parsed_files' = ParseUpsertAll(parsed_files, analysis.newlyParsed)
                 /\ analysisLog' = [analysisLog EXCEPT
                                      !.parseWritten = analysis.newlyParsed]
            ELSE UNCHANGED <<parsed_files, analysisLog>>
     ELSE UNCHANGED <<parsed_files, analysisLog>>
  /\ UNCHANGED <<workTree, options, embeddings, db, dbHandles, analyzeFrame>>

\* parseCache.prune(new Set(files)), or it throws
PruneParseCache ==
  /\ analysis.pc = "pruneParse"
  /\ analysis' = [analysis EXCEPT !.pc = "graph"]
  /\ IF analysis.cacheDb
     THEN \E committed \in BOOLEAN :
            IF committed
            THEN /\ parsed_files' = CachePrune(parsed_files, Range(analysis.files))
                 /\ analysisLog' = [analysisLog EXCEPT
                      !.parsePruned = PruneCount(parsed_files, Range(analysis.files))]
            ELSE UNCHANGED <<parsed_files, analysisLog>>
     ELSE UNCHANGED <<parsed_files, analysisLog>>
  /\ UNCHANGED <<workTree, options, embeddings, db, dbHandles, analyzeFrame>>

\* getGitDiff unless skipGitDiff, then buildGraph
BuildGraphStep ==
  /\ analysis.pc = "graph"
  /\ \E d \in AnalysisDiffs :
       LET gitDiff == IF options.skipGitDiff THEN Null ELSE d.gitDiff
       IN  analysis' = [analysis EXCEPT
             !.pc = IF options.noEmbeddings THEN "close" ELSE "read",
             !.graph = Some(BuildGraph(analysis.parsedFiles, gitDiff, d.baseTree))]
  /\ UNCHANGED <<workTree, options, analysisLog, parsed_files, embeddings, db,
                 dbHandles, analyzeFrame>>

\* the files are read again, the model is loaded; when loading throws the
\* semantic analysis is skipped
ReadContents ==
  /\ analysis.pc = "read"
  /\ \E unreadable \in SUBSET Range(analysis.files), loaded \in BOOLEAN :
       analysis' = [analysis EXCEPT
         !.pc = IF loaded THEN "embed" ELSE "close",
         !.fileContents = ReadFileContents(analysis.files, workTree, unreadable)]
  /\ UNCHANGED <<workTree, options, analysisLog, parsed_files, embeddings, db,
                 dbHandles, analyzeFrame>>

\* the embedding loop; inference may fail for any of the files
EmbedFiles ==
  /\ analysis.pc = "embed"
  /\ \E failing \in SUBSET {fc.filePath : fc \in Range(analysis.fileContents)} :
       LET r == EmbedLoop(analysis.fileContents, failing, embeddings, analysis.cacheDb)
       IN  analysis' = [analysis EXCEPT !.pc = "writeEmb",
                                        !.embeddings = r.embeddings,
                                        !.newEmbeddings = r.newEmbeddings]
  /\ UNCHANGED <<workTree, options, analysisLog, parsed_files, embeddings, db,
                 dbHandles, analyzeFrame>>

\* embeddingCache.setBatch(newEmbeddings), or it throws
WriteEmbeddingCache ==
  /\ analysis.pc = "writeEmb"
  /\ analysis' = [analysis EXCEPT !.pc = "pruneEmb"]
  /\ IF analysis.cacheDb /\ analysis.newEmbeddings # <<>>
     THEN \E committed \in BOOLEAN :
            IF committed
            THEN /\ embeddings' = EmbUpsertAll(embeddings, analysis.newEmbeddings)
                 /\ analysisLog' = [analysisLog EXCEPT
                                      !.embWritten = analysis.newEmbeddings]
            ELSE UNCHANGED <<embeddings, analysisLog>>
     ELSE UNCHANGED <<embeddings, analysisLog>>
  /\ UNCHANGED <<workTree, options, parsed_files, db, dbHandles, analyzeFrame>>

\* embeddingCache.prune(new Set(fileContents.keys())), or it throws
PruneEmbeddingCache ==
  /\ analysis.pc = "pruneEmb"
  /\ analysis' = [analysis EXCEPT !.pc = "semantic"]
  /\ LET existingFiles == {fc.filePath : fc \in Range(analysis.fileContents)}
     IN  IF analysis.cacheDb
         THEN \E committed \in BOOLEAN :
                IF committed
                THEN /\ embeddings' = CachePrune(embeddings, existingFiles)
                     /\ analysisLog' = [analysisLog EXCEPT
                          !.embPruned = PruneCount(embeddings, existingFiles)]
                ELSE UNCHANGED <<embeddings, analysisLog>>
         ELSE UNCHANGED <<embeddings, analysisLog>>
  /\ UNCHANGED <<workTree, options, parsed_files, db, dbHandles, analyzeFrame>>

\* findSemanticEdges over the embeddings and the edges of the graph; its
\* edges are pushed to graph.edges
SemanticEdges ==
  /\ analysis.pc = "semantic"
  /\ LET g == analysis.graph[1]
         existingEdgeSet == {EdgeKey(e.source, e.target) : e \in Range(g.edges)}
         found == FindSemanticEdges(analysis.embeddings, existingEdgeSet,
                                    options.similarityThreshold,
                                    options.maxSemanticEdgesPerFile)
     IN  analysis' = [analysis EXCEPT !.pc = "close",
                                      !.graph = Some(WithSemanticEdges(g, found))]
  /\ UNCHANGED <<workTree, options, analysisLog, parsed_files, embeddings, db,
                 dbHandles, analyzeFrame>>

\* cacheDb.close() when a cache was opened; the graph is returned
CloseAndReturn ==
  /\ analysis.pc = "close"
  /\ analysis' = [analysis EXCEPT !.pc = "done", !.result = analysis.graph]
  /\ db' = IF analysis.cacheDb THEN "null" ELSE db
  /\ dbHandles' = IF analysis.cacheDb THEN dbHandles - 1 ELSE dbHandles
  /\ UNCHANGED <<workTree, options, analysisLog, parsed_files, embeddings, analyzeFrame>>

InitAnalyze ==
  /\ StateIdle /\ ServerIdle /\ SnapshotIdle /\ RegistryIdle /\ BroadcastIdle /\ ShutdownIdle /\ ConflictIdle /\ DiscoveryIdle /\ ResolveIdle /\ SignatureIdle /\ RerunIdle /\ WatchIdle /\ GraphIdle /\ DbIdle
  /\ lastGet = NoLookup
  /\ workTree \in WorkTrees
  /\ options \in AnalyzeOptionSets
  /\ \E c \in PriorCaches : parsed_files = c.parsed_files /\ embeddings = c.embeddings
  /\ analysis = NoAnalysis
  /\ analysisLog = NoAnalysisLog

NextAnalyze ==
  \/ StartAnalysis
  \/ ParseFiles
  \/ WriteParseCache
  \/ PruneParseCache
  \/ BuildGraphStep
  \/ ReadContents
  \/ EmbedFiles
  \/ WriteEmbeddingCache
  \/ PruneEmbeddingCache
  \/ SemanticEdges
  \/ CloseAndReturn

SpecAnalyze == InitAnalyze /\ [][NextAnalyze]_vars

(***************************************************************************)
(* C6: within one pass, the rows written for the pass are committed before *)
(* the prune step runs, and the prune step deletes none of them, for the   *)
(* parse cache and for the embedding cache: from the moment the prune step *)
(* is next until the pass ends, every row written in the pass is in its    *)
(* table and holds what was written.                                       *)
(***************************************************************************)
PruneKeepsWrittenRows ==
  /\ analysis.pc \notin {"start", "parse", "writeParse"} =>
       \A parsed \in Range(analysisLog.parseWritten) :
         /\ parsed.filePath \in DOMAIN parsed_files
         /\ RowToParsedFile(parsed_files[parsed.filePath]) = parsed
  /\ analysis.pc \in {"pruneEmb", "semantic", "close", "done"} =>
       \A item \in Range(analysisLog.embWritten) :
         /\ item.filePath \in DOMAIN embeddings
         /\ embeddings[item.filePath].content_hash = item.contentHash
         /\ JsonParse(embeddings[item.filePath].embedding_json) = item.embedding

\* a pass has ended in which rows were written to both caches and both
\* prune steps deleted rows of files that are gone
PruneKeepsWrittenRowsWitness ==
  /\ analysis.pc = "done"
  /\ analysisLog.parseWritten # <<>>
  /\ analysisLog.embWritten # <<>>
  /\ analysisLog.parsePruned > 0
  /\ analysisLog.embPruned > 0

(***************************************************************************)
(* C7: in every graph an analysis run returns, both endpoints of every     *)
(* edge, dependency and semantic alike, are ids of nodes of that graph.    *)
(***************************************************************************)
EdgeEndpointsAreNodes ==
  analysis.result # Null =>
    LET g == analysis.result[1]
        ids == {n.id : n \in Range(g.nodes)}
    IN  \A i \in 1..Len(g.edges) :
          g.edges[i].source \in ids /\ g.edges[i].target \in ids

(***************************************************************************)
(* C11: an analysis run always returns a graph: no file I/O, cache, VCS,   *)
(* model-download or inference failure leaves analyzeDirectory as an       *)
(* exception.                                                              *)
(***************************************************************************)
AlwaysReturnsGraph ==
  /\ analysis.pc # "thrown"
  /\ analysis.pc = "done" => analysis.result # Null

(***************************************************************************)
(* The rerun specification: analyzeDirectory runs twice over one working   *)
(* tree, in one environment, the second pass finding the cache the first   *)
(* one left                                                                *)
(***************************************************************************)

RerunEnvs ==
  [unreadable : SUBSET {PathB}, failing : SUBSET {PathA}, loaded : BOOLEAN,
   diff : AnalysisDiffs]

CacheFaults ==
  [opened : BOOLEAN, getThrows : BOOLEAN, parseCommitted : BOOLEAN,
   parsePruned : BOOLEAN, embCommitted : BOOLEAN, embPruned : BOOLEAN]

rerunFrame == <<lastGet, dbVars, stateVars, watchVars, graphVars, analysis,
                analysisLog, signatureVars, resolveVars, discoveryVars,
                conflictVars, shutdownVars, broadcastVars, registryVars,
                snapshotVars, serverVars>>

RunPass(result) ==
  /\ parsed_files' = result.parsed_files
  /\ embeddings' = result.embeddings
  /\ UNCHANGED <<workTree, options, rerunFrame>>

FirstRun ==
  /\ rerun.pass = 0
  /\ \E faults \in CacheFaults :
       LET result == AnalyzePass(workTree, [parsed_files |-> parsed_files,
                                            embeddings |-> embeddings],
                                 options, rerun.env[1], faults)
       IN  /\ rerun' = [rerun EXCEPT !.pass = 1, !.first = Some(result)]
           /\ RunPass(result)

SecondRun ==
  /\ rerun.pass = 1
  /\ \E faults \in CacheFaults :
       LET result == AnalyzePass(workTree, [parsed_files |-> parsed_files,
                                            embeddings |-> embeddings],
                                 options, rerun.env[1], faults)
       IN  /\ rerun' = [rerun EXCEPT !.pass = 2, !.second = Some(result)]
           /\ RunPass(result)

InitRerun ==
  /\ StateIdle /\ ServerIdle /\ SnapshotIdle /\ RegistryIdle /\ BroadcastIdle /\ ShutdownIdle /\ ConflictIdle /\ DiscoveryIdle /\ ResolveIdle /\ SignatureIdle /\ WatchIdle /\ GraphIdle /\ DbIdle
  /\ lastGet = NoLookup
  /\ workTree \in WorkTrees
  /\ options \in AnalyzeOptionSets
  /\ \E c \in PriorCaches : parsed_files = c.parsed_files /\ embeddings = c.embeddings
  /\ analysis = NoAnalysis
  /\ analysisLog = NoAnalysisLog
  /\ \E env \in RerunEnvs : rerun = [NoRerun EXCEPT !.env = Some(env)]

NextRerun ==
  \/ FirstRun
  \/ SecondRun

SpecRerun == InitRerun /\ [][NextRerun]_vars

\* an edge without its id
EdgeModuloId(e) ==
  <<e.source, e.target, e.isBroken,
    IF "linkType" \in DOMAIN e THEN <<e.linkType, e.similarity>> ELSE <<"dependency">>>>

EdgeSet(g) == {EdgeModuloId(g.edges[i]) : i \in 1..Len(g.edges)}

NodeSet(g) == Range(g.nodes)

EmptyContent == [exports |-> "", text |-> ""]

\* atBase is the file on the base branch (Null when it is not there),
\* readThrows tells whether reading it fails
SignatureInputs ==
  [file : {ParsedFileOf(PathA, <<>>)},
   gitDiff : {Null} \cup
             {Some([baseBranch |-> b, fileStatus |-> t]) :
                b \in {Null, Some("main")},
                t \in {EmptyTable} \cup
                      {[p \in {PathA} |-> st] : st \in {"ADDED", "MODIFIED", "DELETED"}}},
   atBase : {Null} \cup {Some(c) : c \in BaseContents \cup {EmptyContent}},
   readThrows : BOOLEAN,
   marked : {Null}]

\* the loop of buildGraph that fills changedExportFiles
MarkChangedExports ==
  /\ signatureCheck # Null
  /\ signatureCheck[1].marked = Null
  /\ LET in == signatureCheck[1]
         baseTree == [p \in {in.file.filePath} |-> GetFileAtRef(in.atBase, in.readThrows)]
     IN  signatureCheck' = Some([in EXCEPT !.marked =
           Some(in.file.filePath \in
                  ChangedExportFiles(<<in.file>>, in.gitDiff, baseTree))])
  /\ UNCHANGED notSignatureVars

InitSignature ==
  /\ CacheIdle /\ DbIdle /\ StateIdle /\ ServerIdle /\ SnapshotIdle /\ RegistryIdle /\ BroadcastIdle /\ ShutdownIdle /\ ConflictIdle /\ DiscoveryIdle /\ ResolveIdle /\ WatchIdle /\ GraphIdle /\ AnalyzeIdle
  /\ RerunIdle
  /\ \E in \in SignatureInputs : signatureCheck = Some(in)

NextSignature == MarkChangedExports

SpecSignature == InitSignature /\ [][NextSignature]_vars

(***************************************************************************)
(* C14: a file whose diff status is MODIFIED, a base branch being known,   *)
(* is marked as having a changed export signature if and only if it exists *)
(* on the base branch and the export signature recomputed from its         *)
(* base-branch content differs from its current one; a file absent from    *)
(* the base branch is never marked.                                        *)
(***************************************************************************)
MarkedIffChangedAtBase ==
  (/\ signatureCheck # Null
   /\ signatureCheck[1].marked # Null
   /\ signatureCheck[1].gitDiff # Null
   /\ signatureCheck[1].gitDiff[1].baseBranch # Null
   /\ DiffStatusOf(signatureCheck[1].gitDiff, PathA) = "MODIFIED") =>
    (signatureCheck[1].marked[1] <=>
       /\ signatureCheck[1].atBase # Null
       /\ ParseContentForExports(signatureCheck[1].atBase[1])
            # signatureCheck[1].file.exportSignature)

(***************************************************************************)
(* The resolution specification: buildGraph resolves one relative import   *)
(* of one importer against the other files, which are supplied in any      *)
(* order                                                                   *)
(***************************************************************************)

MaxCandidates == 3

\* the files ./util can stand for, for a TypeScript and for a Python importer
JsCandidateFiles ==
  {<<"util.ts">>, <<"util.tsx">>, <<"util.js">>, <<"util", "index.ts">>,
   <<"util", "index.js">>}

PyCandidateFiles == {<<"util.py">>, <<"util", "__init__.py">>}

JsImporter == <<"a.ts">>

PyImporter == <<"a.py">>

\* ./util, ./util.js and ./util.ts; .util
JsSpecifiers ==
  {RelativeImport(<<".", "util">>, FALSE), RelativeImport(<<".", "util">>, TRUE),
   RelativeImport(<<".", "util.ts">>, FALSE)}

PySpecifiers == {[isRelative |-> TRUE, segs |-> <<"util">>, js |-> FALSE, dots |-> 1]}

\* the orders in which a set of files can be supplied
Orderings(S) ==
  {f \in [1..Cardinality(S) -> S] : \A i, j \in 1..Cardinality(S) : f[i] = f[j] => i = j}

ResolveInputs ==
  {[language |-> "typescript", importer |-> JsImporter, imp |-> imp, files |-> o,
    target |-> Null] :
     imp \in JsSpecifiers,
     o \in UNION {Orderings(S \cup {JsImporter}) :
                    S \in {T \in SUBSET JsCandidateFiles : Cardinality(T) <= MaxCandidates}}}
    \cup
  {[language |-> "python", importer |-> PyImporter, imp |-> imp, files |-> o,
    target |-> Null] :
     imp \in PySpecifiers,
     o \in UNION {Orderings(S \cup {PyImporter}) : S \in SUBSET PyCandidateFiles}}

\* buildGraph over the files in the order supplied; the importer holds the
\* import, the other files none
ResolveInGraph ==
  /\ resolution # Null
  /\ resolution[1].target = Null
  /\ LET in == resolution[1]
         parsedFiles ==
           [i \in 1..Len(in.files) |->
              [ParsedFileOf(in.files[i],
                            IF in.files[i] = in.importer THEN <<in.imp>> ELSE <<>>)
                 EXCEPT !.language = in.language]]
         g == BuildGraph(parsedFiles, Null, [p \in Range(in.files) |-> Null])
     IN  resolution' = Some([in EXCEPT !.target =
           Some(IF g.edges = <<>> THEN Null ELSE Some(g.edges[1].target))])
  /\ UNCHANGED notResolveVars

InitResolve ==
  /\ CacheIdle /\ DbIdle /\ StateIdle /\ ServerIdle /\ SnapshotIdle /\ RegistryIdle /\ BroadcastIdle /\ ShutdownIdle /\ ConflictIdle /\ DiscoveryIdle /\ WatchIdle /\ GraphIdle /\ AnalyzeIdle
  /\ RerunIdle /\ SignatureIdle
  /\ \E in \in ResolveInputs : resolution = Some(in)

NextResolve == ResolveInGraph

SpecResolve == InitResolve /\ [][NextResolve]_vars

\* the paths a specifier can resolve to, in the order of their priority
PriorityOrder(in) ==
  IF in.language = "python"
  THEN <<<<"util.py">>, <<"util", "__init__.py">>>>
  ELSE LET name == in.imp.segs[2]
       IN  <<<<name>>, <<name \o ".ts">>, <<name \o ".tsx">>, <<name \o ".js">>,
             <<name \o ".jsx">>, <<name, "index.ts">>, <<name, "index.tsx">>,
             <<name, "index.js">>, <<name, "index.jsx">>>>

(***************************************************************************)
(* C15: for a fixed file set, a relative specifier with several candidates *)
(* (util.<ext> and util/index.<ext>, say) resolves to the candidate that   *)
(* comes first in the fixed priority order, whatever the order in which    *)
(* the files were supplied; it resolves to nothing only when no candidate  *)
(* is in the set.                                                          *)
(***************************************************************************)
ResolvesToFirstByPriority ==
  (resolution # Null /\ resolution[1].target # Null) =>
    LET in == resolution[1]
        order == PriorityOrder(in)
        present == {i \in 1..Len(order) : order[i] \in Range(in.files)}
    IN  IF present = {} THEN in.target[1] = Null
        ELSE \E i \in present :
               /\ in.target[1] = Some(order[i])
               /\ \A j \in present : i <= j

\* util.ts and util/index.ts are both there, the index file supplied first,
\* and ./util resolved to util.ts
ResolvesToFirstByPriorityWitness ==
  /\ resolution # Null
  /\ resolution[1].target = Some(Some(<<"util.ts">>))
  /\ resolution[1].imp = RelativeImport(<<".", "util">>, FALSE)
  /\ \E i, j \in 1..Len(resolution[1].files) :
       /\ i < j
       /\ resolution[1].files[i] = <<"util", "index.ts">>
       /\ resolution[1].files[j] = <<"util.ts">>

(***************************************************************************)
(* C16: no graph an analysis run returns holds a semantic edge between two *)
(* files that a dependency edge of that graph connects, in either          *)
(* direction.                                                              *)
(***************************************************************************)
IsSemantic(e) == "linkType" \in DOMAIN e

NoSemanticEdgeOverDependency ==
  analysis.result # Null =>
    \A e, d \in Range(analysis.result[1].edges) :
      (IsSemantic(e) /\ ~IsSemantic(d)) => {e.source, e.target} # {d.source, d.target}

\* the returned graph holds the dependency edge from a.ts to util/index.ts,
\* the similarity of the two reaches the threshold, and the graph holds
\* semantic edges
NoSemanticEdgeOverDependencyWitness ==
  /\ analysis.result # Null
  /\ \E d, e \in Range(analysis.result[1].edges) :
       /\ ~IsSemantic(d) /\ d.source = PathA /\ d.target = PathU
       /\ IsSemantic(e)
  /\ \E x, y \in Range(analysis.embeddings) :
       /\ x.filePath = PathA /\ y.filePath = PathU
       /\ CosineSimilarity(x.embedding, y.embedding) >= options.similarityThreshold

(***************************************************************************)
(* The discovery specification: both discoverers applied to the same       *)
(* embeddings, import edges and cap, at a lower and at a higher threshold. *)
(* The vectors have the same length 5, so that their dot product is 25     *)
(* times their cosine; the store holds the rows of the embedded files.     *)
(***************************************************************************)

MaxCap == 2

UnitVectors == {<<5, 0>>, <<4, 3>>, <<3, 4>>, <<0, 5>>}

Thresholds == {15, 20, 24}

DiscoveryFiles == Range(SortedPaths)

ImportEdgeSets == {{}, {EdgeKey(PathA, PathB)}, {EdgeKey(PathU, PathA)}}

DiscoveryInputs ==
  [emb : {[i \in 1..Len(o) |-> [filePath |-> o[i], embedding |-> v[o[i]]]] :
            o \in Orderings(DiscoveryFiles),
            v \in {w \in [DiscoveryFiles -> UnitVectors] : w[PathA] = <<5, 0>>}},
   existingEdgeSet : ImportEdgeSets,
   maxPerFile : 1..MaxCap,
   thresholds : {t \in Thresholds \X Thresholds : t[1] < t[2]},
   step : {0},
   bruteForce : {<<Null, Null>>},
   cloud : {<<Null, Null>>}]

\* findSemanticEdges at the lower, then at the higher threshold
FindBruteForce ==
  /\ discovery # Null
  /\ discovery[1].step \in {0, 1}
  /\ LET in == discovery[1]
         k == in.step + 1
     IN  discovery' = Some([in EXCEPT
           !.step = @ + 1,
           !.bruteForce[k] = Some(FindSemanticEdges(in.emb, in.existingEdgeSet,
                                                    in.thresholds[k], in.maxPerFile))])
  /\ UNCHANGED notDiscoveryVars

\* findSemanticEdgesCloud at the lower, then at the higher threshold
FindCloud ==
  /\ discovery # Null
  /\ discovery[1].step \in {2, 3}
  /\ LET in == discovery[1]
         k == in.step - 1
     IN  discovery' = Some([in EXCEPT
           !.step = @ + 1,
           !.cloud[k] = Some(FindSemanticEdgesCloud(in.emb, in.emb, in.existingEdgeSet,
                                                    in.thresholds[k], in.maxPerFile))])
  /\ UNCHANGED notDiscoveryVars

InitDiscovery ==
  /\ CacheIdle /\ DbIdle /\ StateIdle /\ ServerIdle /\ SnapshotIdle /\ RegistryIdle /\ BroadcastIdle /\ ShutdownIdle /\ ConflictIdle /\ WatchIdle /\ GraphIdle /\ AnalyzeIdle
  /\ RerunIdle /\ SignatureIdle /\ ResolveIdle
  /\ \E in \in DiscoveryInputs : discovery = Some(in)

NextDiscovery ==
  \/ FindBruteForce
  \/ FindCloud

SpecDiscovery == InitDiscovery /\ [][NextDiscovery]_vars

\* the edges of a result as unordered pairs with their similarity
PairsOf(found) ==
  {<<{found[i].source, found[i].target}, found[i].similarity>> : i \in 1..Len(found)}

\* the number of edges of a result that end at a file
DegreeOf(found, file) ==
  Cardinality({i \in 1..Len(found) : file \in {found[i].source, found[i].target}})

\* the similarities of the candidates of a file: the other files it has no
\* import edge with and whose similarity reaches the threshold
CandidateSimilarities(in, threshold, file) ==
  LET vectorOf(f) == (CHOOSE x \in Range(in.emb) : x.filePath = f).embedding
  IN  [g \in {h \in DiscoveryFiles \ {file} :
                /\ EdgeKey(file, h) \notin in.existingEdgeSet
                /\ EdgeKey(h, file) \notin in.existingEdgeSet
                /\ CosineSimilarity(vectorOf(file), vectorOf(h)) >= threshold}
         |-> CosineSimilarity(vectorOf(file), vectorOf(g))]

ThresholdMonotone ==
  (discovery # Null /\ discovery[1].step = 4) =>
    /\ PairsOf(discovery[1].bruteForce[2][1]) \subseteq PairsOf(discovery[1].bruteForce[1][1])
    /\ PairsOf(discovery[1].cloud[2][1]) \subseteq PairsOf(discovery[1].cloud[1][1])

\* the higher threshold removed some edges and kept others, with the cap
\* binding at the lower threshold
ThresholdMonotoneWitness ==
  /\ discovery # Null
  /\ discovery[1].step = 4
  /\ discovery[1].maxPerFile = 1
  /\ PairsOf(discovery[1].bruteForce[2][1]) # {}
  /\ PairsOf(discovery[1].bruteForce[2][1]) # PairsOf(discovery[1].bruteForce[1][1])
  /\ PairsOf(discovery[1].cloud[2][1]) # {}
  /\ PairsOf(discovery[1].cloud[2][1]) # PairsOf(discovery[1].cloud[1][1])
  /\ \E file \in DiscoveryFiles :
       Cardinality(DOMAIN CandidateSimilarities(discovery[1], discovery[1].thresholds[1],
                                                file)) > 1

(***************************************************************************)
(* C19: for the same embeddings, import edges, threshold and cap, the      *)
(* brute-force discoverer and the store-backed one, over a store that      *)
(* returns exact nearest neighbours, find the same set of unordered pairs. *)
(***************************************************************************)
DiscoverersAgree ==
  (discovery # Null /\ discovery[1].step = 4) =>
    PairsOf(discovery[1].bruteForce[1][1]) = PairsOf(discovery[1].cloud[1][1])

(***************************************************************************)
(* The conflict specification: detectConflicts applied to a graph, the     *)
(* files modified on the current branch and the files modified on the      *)
(* other branches                                                          *)
(***************************************************************************)

MaxBranches == 2

\* the files a tree walk lists for a set of modified files: in path order
RECURSIVE WalkOrder(_, _)
WalkOrder(files, order) ==
  IF order = <<>> THEN <<>>
  ELSE IF Head(order) \in files THEN <<Head(order)>> \o WalkOrder(files, Tail(order))
  ELSE WalkOrder(files, Tail(order))

ModifiedFileLists == {WalkOrder(S, <<PathA, PathB, PathU>>) : S \in SUBSET Paths}

DependencyEdge(s, t) == [id |-> <<"e", 0>>, source |-> s, target |-> t, isBroken |-> FALSE]

SemanticEdge(s, t, sim) ==
  [id |-> <<"semantic", s, t>>, source |-> s, target |-> t, isBroken |-> FALSE,
   linkType |-> "semantic", similarity |-> sim]

ConflictGraphs ==
  {[nodes |-> <<>>, edges |-> edges] :
     edges \in {<<>>,
                <<DependencyEdge(PathA, PathU)>>,
                <<DependencyEdge(PathA, PathU), SemanticEdge(PathB, PathU, 20)>>,
                <<SemanticEdge(PathA, PathB, 24)>>}}

OtherBranchLists ==
  UNION {[1..n -> ModifiedFileLists] : n \in 1..MaxBranches}

ConflictInputs ==
  {[graph |-> g, currentBranch |-> cb[1], base |-> cb[2],
    currentModifiedFiles |-> IF cb[1] = Null \/ cb[2] = Null \/ cb[1] = cb[2]
                             THEN <<>> ELSE cur,
    otherBranches |-> [i \in 1..Len(others) |->
                         [name |-> <<"feature", i>>, modifiedFiles |-> others[i]]],
    warnings |-> Null] :
     g \in ConflictGraphs,
     cb \in {<<Some("work"), Some("main")>>, <<Some("main"), Some("main")>>,
             <<Some("work"), Null>>, <<Null, Some("main")>>},
     cur \in ModifiedFileLists,
     others \in OtherBranchLists}

RunConflictDetection ==
  /\ conflict # Null
  /\ conflict[1].warnings = Null
  /\ conflict' = Some([conflict[1] EXCEPT !.warnings = Some(DetectConflicts(conflict[1]))])
  /\ UNCHANGED notConflictVars

InitConflict ==
  /\ CacheIdle /\ DbIdle /\ StateIdle /\ ServerIdle /\ SnapshotIdle /\ RegistryIdle /\ BroadcastIdle /\ ShutdownIdle /\ WatchIdle /\ GraphIdle /\ AnalyzeIdle
  /\ RerunIdle /\ SignatureIdle /\ ResolveIdle /\ DiscoveryIdle
  /\ \E in \in ConflictInputs : conflict = Some(in)

NextConflict == RunConflictDetection

SpecConflict == InitConflict /\ [][NextConflict]_vars

\* the warnings about a file of another branch
WarningsFor(warnings, otherBranch, otherFile) ==
  {i \in 1..Len(warnings) :
     warnings[i].otherBranch = otherBranch /\ warnings[i].otherFile = otherFile}

(***************************************************************************)
(* C20: when conflict detection runs (the current branch and a base branch *)
(* are known and differ), for each other branch and each file F modified   *)
(* on it that is also modified on the current branch there is exactly one  *)
(* warning for F on that branch; its type is direct and its severity high, *)
(* so there is no dependency or semantic warning for F on that branch.     *)
(***************************************************************************)
DirectConflictOnly ==
  (/\ conflict # Null
   /\ conflict[1].warnings # Null
   /\ conflict[1].currentBranch # Null
   /\ conflict[1].base # Null
   /\ conflict[1].currentBranch # conflict[1].base) =>
    \A b \in Range(conflict[1].otherBranches) :
      \A f \in Range(b.modifiedFiles) \cap Range(conflict[1].currentModifiedFiles) :
        LET found == WarningsFor(conflict[1].warnings[1], b.name, f)
        IN  /\ Cardinality(found) = 1
            /\ \A i \in found :
                 /\ conflict[1].warnings[1][i].type = "direct"
                 /\ conflict[1].warnings[1][i].severity = "high"
                 /\ conflict[1].warnings[1][i].currentFile = f

\* util/index.ts is modified on both branches and a.ts, modified on the
\* current branch, has a dependency edge with it; another file of the other
\* branch yields a dependency or semantic warning
DirectConflictOnlyWitness ==
  /\ conflict # Null
  /\ conflict[1].warnings # Null
  /\ \E b \in Range(conflict[1].otherBranches) :
       /\ PathU \in Range(b.modifiedFiles)
       /\ {PathA, PathU} \subseteq Range(conflict[1].currentModifiedFiles)
       /\ \E e \in Range(conflict[1].graph.edges) :
            ConflictEdgeKey(e.source, e.target) = ConflictEdgeKey(PathA, PathU)
       /\ \E i, j \in 1..Len(conflict[1].warnings[1]) :
            /\ conflict[1].warnings[1][i].otherBranch = b.name
            /\ conflict[1].warnings[1][i].otherFile = PathU
            /\ conflict[1].warnings[1][i].type = "direct"
            /\ conflict[1].warnings[1][j].otherBranch = b.name
            /\ conflict[1].warnings[1][j].type # "direct"

(***************************************************************************)
(* C28: every cache handle an analysis run opens is closed before the run  *)
(* ends, when it returns a graph and when it ends with an exception.       *)
(***************************************************************************)
HandleClosedAtEnd ==
  analysis.pc \in {"done", "thrown"} => (dbHandles = 0 /\ db = "null")

(***************************************************************************)
(* The shutdown specification: watch mode as in SpecWatch, and the         *)
(* shutdown handler stopping the file watcher, the git watcher and the     *)
(* WebSocket server in turn, then leaving the process                      *)
(***************************************************************************)

\* SIGINT / SIGTERM: `await watcher.stop()` starts
ShutdownStarts ==
  /\ watchPhase = "watching"
  /\ shutdown = "running"
  /\ shutdown' = "fileClosing"
  /\ watcher' = FileWatcherStopBegins(watcher)
  /\ UNCHANGED <<watchPhase, analysisInProgress, analysisPending, gitWatcher,
                 gitDir, watchLog, stopFrame>>

\* watcher.stop() resolves and `await gitWatcher.stop()` starts
FileWatcherCloses ==
  /\ shutdown = "fileClosing"
  /\ shutdown' = "gitClosing"
  /\ watcher' = FileWatcherStopEnds(watcher)
  /\ gitWatcher' = GitWatcherStopBegins(gitWatcher)
  /\ UNCHANGED <<watchPhase, analysisInProgress, analysisPending, gitDir,
                 watchLog, stopFrame>>

\* gitWatcher.stop() resolves and `await wsServer.stop()` starts
GitWatcherCloses ==
  /\ shutdown = "gitClosing"
  /\ shutdown' = "wsClosing"
  /\ UNCHANGED notShutdownVars

\* wsServer.stop() resolves: process.exit(0)
ProcessExits ==
  /\ shutdown = "wsClosing"
  /\ shutdown' = "exited"
  /\ UNCHANGED notShutdownVars

StopInitialRun == shutdown # "exited" /\ InitialRun

StopStartWatchers == shutdown # "exited" /\ StartWatchers

StopFileChange == ~FileWatcherClosing /\ FileChange

StopFlushChanges == shutdown # "exited" /\ FlushChanges

StopGitDirChange == ~GitWatcherClosing /\ GitDirChange

StopDetectStarts == shutdown # "exited" /\ DetectStarts

StopDetectReads == shutdown # "exited" /\ DetectReads

StopDetectEmits == shutdown # "exited" /\ DetectEmits

StopAnalysisCompletes == shutdown # "exited" /\ AnalysisCompletes

InitStop == CacheIdle /\ DbIdle /\ StateIdle /\ ServerIdle /\ SnapshotIdle /\ RegistryIdle /\ BroadcastIdle /\ ShutdownIdle /\ ConflictIdle /\ DiscoveryIdle /\ ResolveIdle /\ SignatureIdle /\ RerunIdle /\ WatchIdle /\ GraphIdle /\ AnalyzeIdle

NextStop ==
  \/ ShutdownStarts
  \/ FileWatcherCloses
  \/ GitWatcherCloses
  \/ ProcessExits
  \/ StopInitialRun
  \/ StopStartWatchers
  \/ StopFileChange
  \/ StopFlushChanges
  \/ StopGitDirChange
  \/ StopDetectStarts
  \/ StopDetectReads
  \/ StopDetectEmits
  \/ StopAnalysisCompletes

SpecStop == InitStop /\ [][NextStop]_vars

(***************************************************************************)
(* C29: once stop() of the file watcher has resolved it emits no further   *)
(* 'changes' event, and once stop() of the git watcher has resolved it     *)
(* emits no further 'git_event', whatever was pending or in flight when    *)
(* stop() was called.                                                      *)
(***************************************************************************)
NoEmitAfterStop ==
  [][/\ FileWatcherStopped => watchLog'.fileEmits = watchLog.fileEmits
     /\ GitWatcherStopped => watchLog'.gitEmits = watchLog.gitEmits]_vars

(***************************************************************************)
(* The broadcast specification: analysis runs under the runAnalysis lock,  *)
(* each broadcasting its snapshot and then starting a conflict detection   *)
(* that is not awaited                                                     *)
(***************************************************************************)

\* `await runAnalysis()` at start-up
FirstAnalysis ==
  /\ watchPhase = "starting"
  /\ watchPhase' = "initial"
  /\ LET r == CallRunAnalysis(broadcast, analysisInProgress, analysisPending)
     IN  /\ analysisInProgress' = r.analysisInProgress
         /\ analysisPending' = r.analysisPending
         /\ broadcast' = r.broadcast
  /\ UNCHANGED <<watcher, gitWatcher, gitDir, watchLog, broadcastFrame>>

\* the watchers are started once the initial run has ended
WatchersStarted ==
  /\ watchPhase = "initial"
  /\ ~analysisInProgress
  /\ watchPhase' = "watching"
  /\ UNCHANGED <<analysisInProgress, analysisPending, watcher, gitWatcher,
                 gitDir, watchLog, broadcast, broadcastFrame>>

\* the handler of 'changes' or of 'git_event' calls runAnalysis
HandlerCallsRunAnalysis ==
  /\ watchPhase = "watching"
  /\ broadcast.runs < MaxAnalyses
  /\ LET r == CallRunAnalysis(broadcast, analysisInProgress, analysisPending)
     IN  /\ analysisInProgress' = r.analysisInProgress
         /\ analysisPending' = r.analysisPending
         /\ broadcast' = r.broadcast
  /\ UNCHANGED <<watchPhase, watcher, gitWatcher, gitDir, watchLog,
                 broadcastFrame>>

\* analyzeDirectory and createSnapshot return: the snapshot is broadcast and
\* the run awaits writeFile
SnapshotBroadcast ==
  /\ broadcast.run # Null
  /\ broadcast.run[1].pc = "analyzing"
  /\ broadcast' = [BroadcastSnapshot(broadcast, broadcast.run[1].graph)
                     EXCEPT !.run = Some([broadcast.run[1] EXCEPT !.pc = "writing"])]
  /\ UNCHANGED <<watchVars, broadcastFrame>>

\* the run ends: writeFile resolved and runConflictDetection(graph) is
\* called without being awaited, or an await of the try block rejected and
\* the catch block ran; then the finally block
RunEnds ==
  \E ok \in BOOLEAN :
    /\ broadcast.run # Null
    /\ ok => broadcast.run[1].pc = "writing"
    /\ LET g == broadcast.run[1].graph
           b == [broadcast EXCEPT
                   !.run = Null,
                   !.detections = IF ok THEN @ \cup {g} ELSE @]
           r == IF analysisPending
                THEN CallRunAnalysis(b, FALSE, FALSE)
                ELSE [analysisInProgress |-> FALSE,
                      analysisPending |-> FALSE, broadcast |-> b]
       IN  /\ analysisInProgress' = r.analysisInProgress
           /\ analysisPending' = r.analysisPending
           /\ broadcast' = r.broadcast
    /\ UNCHANGED <<watchPhase, watcher, gitWatcher, gitDir, watchLog,
                   broadcastFrame>>

\* detectConflicts of a detection in flight settles: warnings, if any, are
\* broadcast; a rejection is logged
ConflictDetectionEnds ==
  \E g \in broadcast.detections, nonEmpty \in BOOLEAN :
    /\ broadcast' = [BroadcastConflictWarnings(broadcast, g, nonEmpty)
                       EXCEPT !.detections = @ \ {g}]
    /\ UNCHANGED <<watchVars, broadcastFrame>>

InitBroadcast == CacheIdle /\ DbIdle /\ StateIdle /\ ServerIdle /\ SnapshotIdle /\ RegistryIdle /\ ShutdownIdle /\ BroadcastIdle /\ ConflictIdle /\ DiscoveryIdle /\ ResolveIdle /\ SignatureIdle /\ RerunIdle /\ WatchIdle /\ GraphIdle /\ AnalyzeIdle

NextBroadcast ==
  \/ FirstAnalysis
  \/ WatchersStarted
  \/ HandlerCallsRunAnalysis
  \/ SnapshotBroadcast
  \/ RunEnds
  \/ ConflictDetectionEnds

SpecBroadcast == InitBroadcast /\ [][NextBroadcast]_vars

(***************************************************************************)
(* C27: every conflict_warning message broadcast carries warnings computed *)
(* from the graph of the snapshot broadcast last before it; warnings of an *)
(* older graph are never broadcast after a newer snapshot.                 *)
(***************************************************************************)
WarningsOfCurrentSnapshot ==
  \A i \in DOMAIN broadcast.sent :
    broadcast.sent[i].type = "conflict_warning"
      => broadcast.sent[i].graph = LastSnapshot(broadcast.sent, i)

(***************************************************************************)
(* The plugin registry specification: a sequence of register calls         *)
(***************************************************************************)

\* pluginRegistry.register(plugin)
RegisterPlugin ==
  \E plugin \in PluginObjects :
    /\ Len(registryLog) < MaxRegistrations
    /\ plugin.object = Len(registryLog) + 1
    /\ registry' = Register(registry, plugin)
    /\ registryLog' = Append(registryLog,
         [plugin |-> plugin,
          warned |-> RegisterWarns(registry, plugin),
          replaced |-> {e \in LowerExtensions :
                          /\ registry.extensionMap[e] # Null
                          /\ \E ext \in plugin.extensions : ToLowerCase(ext) = e}])
    /\ UNCHANGED notRegistryVars

InitRegistry == CacheIdle /\ DbIdle /\ StateIdle /\ ServerIdle /\ SnapshotIdle /\ ShutdownIdle /\ BroadcastIdle /\ RegistryIdle /\ ConflictIdle /\ DiscoveryIdle /\ ResolveIdle /\ SignatureIdle /\ RerunIdle /\ WatchIdle /\ GraphIdle /\ AnalyzeIdle

NextRegistry == RegisterPlugin

SpecRegistry == InitRegistry /\ [][NextRegistry]_vars

\* the plugin registered last among those declaring the extension, if any
LastRegisteredFor(e) ==
  LET declaring == {i \in DOMAIN registryLog :
                      \E ext \in registryLog[i].plugin.extensions :
                        ToLowerCase(ext) = e}
  IN  IF declaring = {} THEN Null
      ELSE Some(registryLog[CHOOSE i \in declaring :
                              \A j \in declaring : j <= i].plugin)

(***************************************************************************)
(* C23: a register call for a plugin one of whose extensions already has   *)
(* an adapter returns normally, logs a warning, and from then on a lookup  *)
(* of an extension returns the plugin registered last for it.              *)
(***************************************************************************)
OverwriteWarnsAndWins ==
  /\ \A i \in DOMAIN registryLog :
       registryLog[i].replaced # {} => registryLog[i].warned
  /\ \A ext \in DeclaredExtensions :
       GetPluginForExtension(registry, ext) = LastRegisteredFor(ToLowerCase(ext))

(***************************************************************************)
(* The snapshot history specification: a sequence of saves to one output   *)
(* file                                                                    *)
(***************************************************************************)

\* saveTopologyData(outputPath, graph, repoPath, options)
Save ==
  \E history \in BOOLEAN, maxSnapshots \in MaxSnapshotsValues, readable \in BOOLEAN :
    /\ saveLog.saves < MaxSaves
    /\ dataFile = Null => ~readable
    /\ dataFile' = SaveTopologyData(LoadExistingData(dataFile, readable),
                                    saveLog.saves + 1, history, maxSnapshots)
    /\ saveLog' = [saves |-> saveLog.saves + 1,
                   maxSnapshots |-> maxSnapshots,
                   allHistory |-> saveLog.allHistory /\ history,
                   allRead |-> saveLog.allRead /\ (readable \/ dataFile = Null)]
    /\ UNCHANGED notSnapshotVars

InitSnapshot == CacheIdle /\ DbIdle /\ StateIdle /\ ServerIdle /\ ShutdownIdle /\ BroadcastIdle /\ RegistryIdle /\ SnapshotIdle /\ ConflictIdle /\ DiscoveryIdle /\ ResolveIdle /\ SignatureIdle /\ RerunIdle /\ WatchIdle /\ GraphIdle /\ AnalyzeIdle

NextSnapshot == Save

SpecSnapshot == InitSnapshot /\ [][NextSnapshot]_vars

\* the stored list is the tail of the snapshots saved so far, in save order
MostRecentInOrder ==
  \A i \in DOMAIN dataFile[1].snapshots :
    dataFile[1].snapshots[i] = saveLog.saves - Len(dataFile[1].snapshots) + i

\* currentIndex is an index of the list and the one of its last entry
IndexAtNewest ==
  /\ dataFile[1].currentIndex \in 0..(Len(dataFile[1].snapshots) - 1)
  /\ dataFile[1].currentIndex = Len(dataFile[1].snapshots) - 1

(***************************************************************************)
(* C24: after any sequence of history-mode saves the stored list holds at  *)
(* most maxSnapshots entries, they are the snapshots saved last, in save   *)
(* order, and currentIndex is a valid index, the one of the newest.        *)
(***************************************************************************)
HistoryBounded ==
  dataFile # Null /\ saveLog.allHistory
    => /\ AtMost(Len(dataFile[1].snapshots), saveLog.maxSnapshots)
       /\ MostRecentInOrder
       /\ IndexAtNewest

(***************************************************************************)
(* The vector store specification: a TopologyState in some environment,    *)
(* initAuth, getCloudStore calls and close                                 *)
(***************************************************************************)

\* state.initAuth()
ServerInitAuth ==
  /\ server.phase = "constructed"
  /\ server' = InitAuth(server)
  /\ dbHandles' = dbHandles + 1
  /\ UNCHANGED <<db, serverFrame>>

\* state.getCloudStore(), called by the find_similar_files tool
CallGetCloudStore ==
  \E initOk \in BOOLEAN :
    /\ server.phase \in {"constructed", "ready"}
    /\ server' = GetCloudStore(server, initOk)
    /\ UNCHANGED <<db, dbHandles, serverFrame>>

\* state.close()
ServerClose ==
  /\ server.phase \in {"constructed", "ready"}
  /\ server' = [server EXCEPT !.phase = "closed", !.cacheDb = FALSE,
                              !.cloudStore = Null]
  /\ dbHandles' = IF server.cacheDb THEN dbHandles - 1 ELSE dbHandles
  /\ UNCHANGED <<db, serverFrame>>

InitVectorStore ==
  /\ CacheIdle /\ DbIdle /\ StateIdle /\ ShutdownIdle /\ BroadcastIdle /\ RegistryIdle /\ SnapshotIdle /\ ConflictIdle /\ DiscoveryIdle /\ ResolveIdle /\ SignatureIdle /\ RerunIdle /\ WatchIdle /\ GraphIdle /\ AnalyzeIdle
  /\ \E env \in VectorEnvs : server = Constructed(env)

NextVectorStore ==
  \/ ServerInitAuth
  \/ CallGetCloudStore
  \/ ServerClose

SpecVectorStore == InitVectorStore /\ [][NextVectorStore]_vars

(***************************************************************************)
(* C22: a getCloudStore call for a provider other than sqlite whose        *)
(* credentials are missing fails with an error; it never returns without a *)
(* store, leaving the caller to go on without the selected backend.        *)
(***************************************************************************)
MissingCredentialsIsAnError ==
  /\ server.lastCall # Null
  /\ server.lastCall[1].provider \in VectorProviders \ {"sqlite"}
  /\ ~server.lastCall[1].credentials
  => server.lastCall[1].outcome = "error"

(***************************************************************************)
(* The server specification: a TopologyState whose initAuth was called,    *)
(* and one analyzeDirectory pass started by refresh                        *)
(***************************************************************************)

\* refresh calls analyzeDirectory
RefreshStartsAnalysis ==
  /\ server.phase = "ready"
  /\ StartAnalysis

InitServer == InitAnalyze

NextServer ==
  \/ ServerInitAuth
  \/ RefreshStartsAnalysis
  \/ ParseFiles
  \/ WriteParseCache
  \/ PruneParseCache
  \/ BuildGraphStep
  \/ ReadContents
  \/ EmbedFiles
  \/ WriteEmbeddingCache
  \/ PruneEmbeddingCache
  \/ SemanticEdges
  \/ CloseAndReturn
  \/ ServerClose

SpecServer == InitServer /\ [][NextServer]_vars

(***************************************************************************)
(* C21: at any time at most one handle to the cache store of the           *)
(* repository is open.                                                     *)
(***************************************************************************)
SingleCacheHandle == dbHandles <= 1

====
